---- MODULE Spec2Model ----
(***************************************************************************)
(* Template instantiation, dependency locking and status rollup of the     *)
(* onboarding portal (app.py, init_db.py).                                 *)
(*                                                                         *)
(* The SQLite database is the record db (one field per table, each table a *)
(* set of rows, plus the AUTOINCREMENT counters).  A request handler runs  *)
(* on its own connection: conn holds the handler's position, its locals    *)
(* and the connection's uncommitted view of the database.                  *)
(***************************************************************************)
EXTENDS Integers, Sequences, FiniteSets, TLC

VARIABLES db, conn, now, last

vars == <<db, conn, now, last>>

\* ---------------------------------------------------------------- bounds
MaxTplTasks == 2
MaxTime == 2
\* phase ids ever handed out to POST /api/phase/create; rows of the tasks table
MaxPhaseRows == 3
MaxTaskRows == 3

MaxTemplates == 3
\* days the dashboard is watched after 2024-01-01
MaxDays == 21
\* ids ever handed out per template table while a template is edited
MaxAuthorRows == 3

\* SQL NULL / Python None in an integer column (dates, timestamps, durations)
NULL == -1

\* ------------------------------------------------------------- calendar
\* A Python date is modelled by its ordinal: days since 2024-01-01.
\* A '%Y-%m-%d' string is modelled by the number YYYYMMDD it spells.
IsLeap(y) == (y % 4 = 0 /\ y % 100 # 0) \/ y % 400 = 0

DaysInMonth(y, m) ==
    IF m = 2 THEN (IF IsLeap(y) THEN 29 ELSE 28)
    ELSE IF m \in {4, 6, 9, 11} THEN 30 ELSE 31

RECURSIVE FromOrdinal(_, _, _)
FromOrdinal(n, y, m) ==
    IF n < DaysInMonth(y, m)
    THEN y * 10000 + m * 100 + (n + 1)
    ELSE FromOrdinal(n - DaysInMonth(y, m),
                     IF m = 12 THEN y + 1 ELSE y,
                     IF m = 12 THEN 1 ELSE m + 1)

\* date.strftime('%Y-%m-%d')
strftime(d) == FromOrdinal(d, 2024, 1)

RECURSIVE ToOrdinal(_, _, _, _)
ToOrdinal(y, m, ty, tm) ==
    IF y = ty /\ m = tm THEN 0
    ELSE DaysInMonth(y, m) + ToOrdinal(IF m = 12 THEN y + 1 ELSE y,
                                       IF m = 12 THEN 1 ELSE m + 1, ty, tm)

\* datetime.strptime(s, '%Y-%m-%d').date()
strptime(s) ==
    ToOrdinal(2024, 1, s \div 10000, (s \div 100) % 100) + (s % 100) - 1

\* running_date + timedelta(days=dur)
timedelta(d, days) == d + days

\* ----------------------------------------------------------- the database
Tables == {"templates", "template_phases", "template_tasks",
           "template_task_actions", "template_phase_dependencies",
           "projects", "phases", "tasks", "task_actions",
           "phase_dependencies", "phase_deadlines", "task_deadlines"}

EmptyDB ==
    [templates |-> {}, template_phases |-> {}, template_tasks |-> {},
     template_task_actions |-> {}, template_phase_dependencies |-> {},
     projects |-> {}, phases |-> {}, tasks |-> {}, task_actions |-> {},
     phase_dependencies |-> {}, phase_deadlines |-> {}, task_deadlines |-> {},
     seq |-> [t \in Tables |-> 0]]

\* INSERT into an AUTOINCREMENT table: the row gets id seq+1
NextId(d, table) == d.seq[table] + 1

Insert(d, table, r) ==
    [d EXCEPT ![table] = @ \cup {r}, !.seq[table] = r.id]

\* SELECT ... WHERE id=?  (the single row, rows are unique by id)
RowById(rowset, id) == CHOOSE r \in rowset : r.id = id

Ids(rowset) == {r.id : r \in rowset}

\* ORDER BY <field>: the rows in ascending order of r[field] (ties by rowid)
RECURSIVE OrderBy(_, _)
OrderBy(rowset, f) ==
    IF rowset = {} THEN <<>>
    ELSE LET m == CHOOSE r \in rowset :
                    \A o \in rowset : r[f] < o[f] \/ (r[f] = o[f] /\ r.id <= o.id)
         IN <<m>> \o OrderBy(rowset \ {m}, f)

\* variant: every new task is given the first place
MaxOrderZero(rowset) == 0

\* SELECT COALESCE(MAX(task_order),0)
RECURSIVE MaxOrder(_)
MaxOrder(rowset) ==
    IF rowset = {} THEN 0
    ELSE LET r == CHOOSE r \in rowset : TRUE
             m == MaxOrder(rowset \ {r})
         IN IF r.task_order > m THEN r.task_order ELSE m

\* ------------------------------------------------- template authoring
\* Each handler is a function from the committed database to the committed
\* database it leaves; a request that raises leaves the database as it was.

api_create_template(d, name) ==
    IF \E t \in d.templates : t.template_name = name
    THEN d      \* UNIQUE(template_name): IntegrityError, nothing committed
    ELSE Insert(d, "templates",
                [id |-> NextId(d, "templates"), template_name |-> name,
                 is_default |-> 0])

api_create_template_phase(d, template_id, pnum, pname, dur) ==
    IF \/ template_id \notin Ids(d.templates)
       \/ \E tp \in d.template_phases :
              tp.template_id = template_id /\ tp.phase_number = pnum
    THEN d      \* FOREIGN KEY / UNIQUE(template_id, phase_number)
    ELSE Insert(d, "template_phases",
                [id |-> NextId(d, "template_phases"), template_id |-> template_id,
                 phase_number |-> pnum, phase_name |-> pname,
                 duration_days |-> dur])

api_create_template_task(d, phase_id, name, ownership) ==
    IF phase_id \notin Ids(d.template_phases)
    THEN d      \* FOREIGN KEY (template_phase_id)
    ELSE LET mx == MaxOrder({tt \in d.template_tasks : tt.template_phase_id = phase_id})
         IN Insert(d, "template_tasks",
                   [id |-> NextId(d, "template_tasks"), template_phase_id |-> phase_id,
                    task_order |-> mx + 1, task_name |-> name,
                    ownership |-> ownership])

api_add_template_dep(d, template_id, pnum, dnum) ==
    IF \/ template_id \notin Ids(d.templates)
       \/ \E e \in d.template_phase_dependencies :
              /\ e.template_id = template_id
              /\ e.phase_number = pnum
              /\ e.depends_on_phase_number = dnum
    THEN d      \* FOREIGN KEY error, or INSERT OR IGNORE on the UNIQUE edge
    ELSE Insert(d, "template_phase_dependencies",
                [id |-> NextId(d, "template_phase_dependencies"),
                 template_id |-> template_id, phase_number |-> pnum,
                 depends_on_phase_number |-> dnum])

\* ------------------------------------------------ the request inputs
PhaseNums == {1, 3, 4, 5}

PhaseNameOf(pnum) ==
    CASE pnum = 1 -> "Prerequisites"
      [] pnum = 3 -> "Application Deployment"
      [] pnum = 4 -> "Data Migration"
      [] OTHER -> "Upgrade"

Durations == {7, 14}

\* body.get("duration_days", 14): a number, or an explicit JSON null
DurationInputs == Durations \cup {NULL}

\* (phase_number, depends_on_phase_number) a client may post; no phase 9 exists
DepInputs == {<<4, 1>>, <<5, 9>>}

ProjectNames == {"alpha", "beta"}

StartDates == {20240101, 20240215}

TemplateIds == {1, 2}

\* variant: a fourth status value is accepted
StatusesAndDone == {"pending", "in_progress", "completed", "done"}

Statuses == {"pending", "in_progress", "completed"}

\* --------------------------------------- templates the API can have built
RECURSIVE Ascending(_)
Ascending(S) ==
    IF S = {} THEN <<>>
    ELSE LET m == CHOOSE x \in S : \A y \in S : x <= y
         IN <<m>> \o Ascending(S \ {m})

Reversed(s) == [i \in 1..Len(s) |-> s[Len(s) + 1 - i]]

RECURSIVE AuthorPhases(_, _, _)
AuthorPhases(d, pnums, dur) ==
    IF pnums = <<>> THEN d
    ELSE AuthorPhases(
             api_create_template_phase(d, 1, Head(pnums), PhaseNameOf(Head(pnums)),
                                       dur[Head(pnums)]),
             Tail(pnums), dur)

\* the template phase with the given number gets n tasks
RECURSIVE AuthorTasks(_, _, _)
AuthorTasks(d, pnum, n) ==
    IF n = 0 THEN d
    ELSE LET tp == CHOOSE tp \in d.template_phases : tp.phase_number = pnum
             k == MaxOrder({tt \in d.template_tasks : tt.template_phase_id = tp.id}) + 1
         IN AuthorTasks(
                api_create_template_task(d, tp.id, <<pnum, k>>,
                    IF k % 2 = 1 THEN "Platform Team" ELSE "App Team"),
                pnum, n - 1)

\* task counts that differ from phase to phase: profile 0..MaxTplTasks
TaskCount(pnum, profile) == (pnum + profile) % (MaxTplTasks + 1)

RECURSIVE AuthorAllTasks(_, _, _)
AuthorAllTasks(d, pnums, ntasks) ==
    IF pnums = <<>> THEN d
    ELSE AuthorAllTasks(AuthorTasks(d, Head(pnums), ntasks[Head(pnums)]),
                        Tail(pnums), ntasks)

RECURSIVE AuthorDeps(_, _)
AuthorDeps(d, edges) ==
    IF edges = {} THEN d
    ELSE LET e == CHOOSE e \in edges :
                    \A o \in edges : e[1] < o[1] \/ (e[1] = o[1] /\ e[2] <= o[2])
         IN AuthorDeps(api_add_template_dep(d, 1, e[1], e[2]), edges \ {e})

\* The database after the calls that author one template: its phases posted in
\* ascending or descending phase-number order, then the tasks, then the edges.
AuthoredDB(pnums, dur, ntasks, descending, edges) ==
    LET order == IF descending THEN Reversed(Ascending(pnums)) ELSE Ascending(pnums)
        d1 == api_create_template(EmptyDB, "Standard")
        d2 == AuthorPhases(d1, order, dur)
        d3 == AuthorAllTasks(d2, Ascending(pnums), ntasks)
    IN AuthorDeps(d3, edges)

\* --------------------------------------------------------- connections
Idle == [pc |-> "idle"]

NoRequest == [op |-> "none", code |-> 0, id |-> 0, arg |-> "none"]

Response(op, code, id, arg) == [op |-> op, code |-> code, id |-> id, arg |-> arg]

\* variant: leaving the connection commits what it has done so far
get_db_close_commits(committed, work) == work

\* get_db's finally: conn.close().  Closing without a commit discards the
\* connection's uncommitted changes: the committed database stays.
get_db_close(committed, work) == committed

\* ----------------------------------------- create_project_from_template
MainTrack == {1, 2, 3}

\* variant: the cursor advances after every phase
AdvanceDateAlways(running_date, pnum, dur) == timedelta(running_date, dur)

\* "if pnum in [1, 2, 3]: running_date += timedelta(days=dur)"
AdvanceDate(running_date, pnum, dur) ==
    IF pnum \in MainTrack THEN timedelta(running_date, dur) ELSE running_date

\* the phase row inserted for template phase tp
PhaseRow(id, project_id, tp, running_date) ==
    [id |-> id, project_id |-> project_id,
     phase_number |-> tp.phase_number, phase_name |-> tp.phase_name,
     status |-> "pending",
     target_start |-> strftime(running_date),
     target_end |-> strftime(timedelta(running_date, tp.duration_days)),
     started_at |-> NULL, completed_at |-> NULL]

\* the task row inserted for template task tt
TaskRow(id, phase_id, tt) ==
    [id |-> id, phase_id |-> phase_id, task_order |-> tt.task_order,
     task_name |-> tt.task_name, ownership |-> tt.ownership,
     status |-> "pending", started_at |-> NULL, completed_at |-> NULL]

RECURSIVE CopyActions(_, _, _)
CopyActions(w, task_id, acts) ==
    IF acts = <<>> THEN w
    ELSE CopyActions(
             Insert(w, "task_actions",
                    [id |-> NextId(w, "task_actions"), task_id |-> task_id,
                     action_label |-> Head(acts).action_label]),
             task_id, Tail(acts))

\* variant: only the first template task is copied (fetchone for fetchall)
CopyTasksFirstOnly(w, phase_id, tts) ==
    IF tts = <<>> THEN w
    ELSE LET tt == Head(tts)
             task_id == NextId(w, "tasks")
             w1 == Insert(w, "tasks", TaskRow(task_id, phase_id, tt))
             acts == OrderBy({a \in w.template_task_actions :
                                 a.template_task_id = tt.id}, "id")
         IN CopyActions(w1, task_id, acts)

RECURSIVE CopyTasks(_, _, _)
CopyTasks(w, phase_id, tts) ==
    IF tts = <<>> THEN w
    ELSE LET tt == Head(tts)
             task_id == NextId(w, "tasks")
             w1 == Insert(w, "tasks", TaskRow(task_id, phase_id, tt))
             acts == OrderBy({a \in w.template_task_actions :
                                 a.template_task_id = tt.id}, "id")
         IN CopyTasks(CopyActions(w1, task_id, acts), phase_id, Tail(tts))

\* One pass of "for tp_id, pnum, pname, dur in t_phases", for a phase whose
\* duration is a number: c is the handler's state, the result the state after.
StampPhase(c) ==
    LET tp == Head(c.t_phases)
        phase_id == NextId(c.work, "phases")
        w1 == Insert(c.work, "phases",
                     PhaseRow(phase_id, c.project_id, tp, c.running_date))
        t_tasks == OrderBy({tt \in w1.template_tasks :
                               tt.template_phase_id = tp.id}, "task_order")
    IN [c EXCEPT !.work = CopyTasks(w1, phase_id, t_tasks),
                 !.t_phases = Tail(c.t_phases),
                 !.phase_lookup = (tp.phase_number :> phase_id) @@ c.phase_lookup,
                 !.running_date = AdvanceDate(c.running_date, tp.phase_number,
                                              tp.duration_days)]

\* variant: dependent and prerequisite exchanged
DepRowSwapped(id, project_id, phase_lookup, e) ==
    [id |-> id, project_id |-> project_id,
     phase_id |-> phase_lookup[e.depends_on_phase_number],
     depends_on_phase_id |-> phase_lookup[e.phase_number]]

\* "if dep_num in phase_lookup and prereq_num in phase_lookup: INSERT ..."
DepRow(id, project_id, phase_lookup, e) ==
    [id |-> id, project_id |-> project_id,
     phase_id |-> phase_lookup[e.phase_number],
     depends_on_phase_id |-> phase_lookup[e.depends_on_phase_number]]

Translatable(phase_lookup, e) ==
    /\ e.phase_number \in DOMAIN phase_lookup
    /\ e.depends_on_phase_number \in DOMAIN phase_lookup

RECURSIVE CopyDeps(_, _, _, _)
CopyDeps(w, project_id, phase_lookup, t_deps) ==
    IF t_deps = <<>> THEN w
    ELSE LET e == Head(t_deps)
             w1 == IF Translatable(phase_lookup, e)
                   THEN Insert(w, "phase_dependencies",
                               DepRow(NextId(w, "phase_dependencies"), project_id,
                                      phase_lookup, e))
                   ELSE w
         IN CopyDeps(w1, project_id, phase_lookup, Tail(t_deps))

\* "SELECT COALESCE(SUM(duration_days), 90) FROM template_phases WHERE template_id=?"
RECURSIVE SumDurations(_)
SumDurations(tps) ==
    IF tps = {} THEN 0
    ELSE LET tp == CHOOSE tp \in tps : TRUE
         IN tp.duration_days + SumDurations(tps \ {tp})

\* variant: only the main-track phases are summed
TotalDurationMainTrack(d, template_id) ==
    LET counted == {tp \in d.template_phases :
                       /\ tp.template_id = template_id /\ tp.duration_days # NULL
                       /\ tp.phase_number \in MainTrack}
    IN IF counted = {} THEN 90 ELSE SumDurations(counted)

TotalDuration(d, template_id) ==
    LET counted == {tp \in d.template_phases :
                       tp.template_id = template_id /\ tp.duration_days # NULL}
    IN IF counted = {} THEN 90 ELSE SumDurations(counted)

\* ------------------------------------------------- POST /api/project/create
\* The handler up to the first pass of the phase loop: the project row is
\* inserted on the connection, the template's phases are fetched.
api_create_project(name, template_id, start_str) ==
    /\ conn.pc = "idle"
    /\ LET start_date == strptime(start_str)
           target == strftime(timedelta(start_date, TotalDuration(db, template_id)))
           project_id == NextId(db, "projects")
       IN IF \E p \in db.projects : p.project_name = name
          THEN \* UNIQUE(project_name): IntegrityError on the INSERT
               /\ db' = get_db_close(db, db)
               /\ conn' = Idle
               /\ last' = Response("api_create_project", 500, 0, name)
          ELSE /\ conn' = [pc |-> "phases",
                           work |-> Insert(db, "projects",
                                       [id |-> project_id, project_name |-> name,
                                        start_date |-> start_str,
                                        target_completion |-> target,
                                        template_id |-> template_id]),
                           project_id |-> project_id,
                           template_id |-> template_id,
                           t_phases |-> OrderBy({tp \in db.template_phases :
                                                    tp.template_id = template_id},
                                                "phase_number"),
                           phase_lookup |-> <<>>,
                           running_date |-> start_date]
               /\ db' = db
               /\ last' = Response("api_create_project", 0, project_id, name)
    /\ UNCHANGED now

\* db.commit(): the connection's view becomes the committed database
db_commit(committed, work) == work

\* One pass of the phase loop.  timedelta(days=None) raises TypeError for a
\* template phase whose duration_days is NULL; the handler ends, get_db closes
\* the connection.
create_project_phase ==
    /\ conn.pc = "phases"
    /\ conn.t_phases # <<>>
    /\ IF Head(conn.t_phases).duration_days = NULL
       THEN /\ db' = get_db_close(db, conn.work)
            /\ conn' = Idle
            /\ last' = Response("api_create_project", 500, conn.project_id, "TypeError")
       ELSE /\ conn' = StampPhase(conn)
            /\ UNCHANGED <<db, last>>
    /\ UNCHANGED now

\* "# Copy dependencies", after the last phase
create_project_deps ==
    /\ conn.pc = "phases"
    /\ conn.t_phases = <<>>
    /\ LET t_deps == OrderBy({e \in conn.work.template_phase_dependencies :
                                 e.template_id = conn.template_id}, "id")
       IN conn' = [conn EXCEPT !.pc = "commit",
                               !.work = CopyDeps(conn.work, conn.project_id,
                                                 conn.phase_lookup, t_deps)]
    /\ UNCHANGED <<db, now, last>>

\* db.commit() and the response
create_project_commit ==
    /\ conn.pc = "commit"
    /\ db' = db_commit(db, conn.work)
    /\ conn' = Idle
    /\ last' = Response("api_create_project", 200, conn.project_id, "ok")
    /\ UNCHANGED now

\* An execute or the commit raises sqlite3.Error (disk full, I/O error): the
\* exception leaves the handler through get_db's finally.
create_project_raise ==
    /\ conn.pc \in {"phases", "commit"}
    /\ db' = get_db_close(db, conn.work)
    /\ conn' = Idle
    /\ last' = Response("api_create_project", 500, conn.project_id, "sqlite3.Error")
    /\ UNCHANGED now

CreateProjectSteps ==
    \/ create_project_phase
    \/ create_project_deps
    \/ create_project_commit
    \/ create_project_raise

\* ------------------------------------------------- instantiation alone
InitInst ==
    /\ \E pnums \in SUBSET PhaseNums :
       \E dur \in [pnums -> DurationInputs] :
       \E profile \in 0..MaxTplTasks :
       \E descending \in BOOLEAN :
       \E edges \in SUBSET DepInputs :
           db = AuthoredDB(pnums, dur, [n \in pnums |-> TaskCount(n, profile)],
                           descending, edges)
    /\ conn = Idle
    /\ now = 1
    /\ last = NoRequest

NextInst ==
    \/ \E name \in ProjectNames, template_id \in TemplateIds, start_str \in StartDates :
           api_create_project(name, template_id, start_str)
    \/ CreateProjectSteps

SpecInst == InitInst /\ [][NextInst]_vars

\* ------------------------------------------------------------- queries
TemplatePhasesOf(d, template_id) ==
    {tp \in d.template_phases : tp.template_id = template_id}

TemplateTasksOf(d, template_phase_id) ==
    {tt \in d.template_tasks : tt.template_phase_id = template_phase_id}

TemplateDepsOf(d, template_id) ==
    {e \in d.template_phase_dependencies : e.template_id = template_id}

PhasesOf(d, project_id) == {ph \in d.phases : ph.project_id = project_id}

TasksOf(d, phase_id) == {t \in d.tasks : t.phase_id = phase_id}

DepsOf(d, project_id) == {e \in d.phase_dependencies : e.project_id = project_id}

Untouched(r) == r.status = "pending" /\ r.started_at = NULL /\ r.completed_at = NULL

\* ------------------------------------------------------------------ C1
\* C1: every committed project has exactly one phase per phase of its
\* template, with the template phase's number and name; that phase has as many
\* tasks as the template phase; every phase and task is pending with
\* started_at and completed_at NULL.
C1_InstantiationComplete ==
    \A p \in db.projects :
        LET tps == TemplatePhasesOf(db, p.template_id)
            phs == PhasesOf(db, p.id)
        IN /\ Cardinality(phs) = Cardinality(tps)
           /\ \A tp \in tps :
                \E ph \in phs :
                    /\ ph.phase_number = tp.phase_number
                    /\ ph.phase_name = tp.phase_name
                    /\ Untouched(ph)
                    /\ Cardinality(TasksOf(db, ph.id))
                         = Cardinality(TemplateTasksOf(db, tp.id))
                    /\ \A t \in TasksOf(db, ph.id) : Untouched(t)

\* a second project stamped from a template of three phases, one of them with
\* two tasks and one with none
C1_Witness ==
    \E p \in db.projects :
        /\ p.id = 2
        /\ Cardinality(PhasesOf(db, p.id)) = 3
        /\ \E ph \in PhasesOf(db, p.id) : Cardinality(TasksOf(db, ph.id)) = 2
        /\ \E ph \in PhasesOf(db, p.id) : TasksOf(db, ph.id) = {}

\* ------------------------------------------------------------------ C2
\* the cursor when template phase tp is scheduled: the start date plus the
\* durations of the main-track phases numbered below it
CursorAt(d, p, tp) ==
    timedelta(strptime(p.start_date),
              SumDurations({q \in TemplatePhasesOf(d, p.template_id) :
                               q.phase_number < tp.phase_number
                               /\ q.phase_number \in {1, 2, 3}}))

\* C2: every phase of a committed project starts at the cursor (the start
\* date advanced by the durations of the earlier phases numbered 1, 2 or 3
\* only) and ends duration_days later; phase 1 starts on the start date.
C2_DateScheduling ==
    \A p \in db.projects :
        \A tp \in TemplatePhasesOf(db, p.template_id) :
            \A ph \in PhasesOf(db, p.id) :
                ph.phase_number = tp.phase_number =>
                    /\ ph.target_start = strftime(CursorAt(db, p, tp))
                    /\ strptime(ph.target_end)
                         = strptime(ph.target_start) + tp.duration_days
                    /\ (tp.phase_number = 1 =>
                            strptime(ph.target_start) = strptime(p.start_date))

\* phases 1, 4 and 5 with different durations: 4 and 5 start on the same day,
\* later than phase 1, and the schedule crosses the end of February
C2_Witness ==
    \E p \in db.projects :
        \E a, b, c \in PhasesOf(db, p.id) :
            /\ a.phase_number = 1 /\ b.phase_number = 4 /\ c.phase_number = 5
            /\ b.target_start = c.target_start
            /\ b.target_start # a.target_start
            /\ b.target_end # c.target_end
            /\ a.target_start = 20240215
            /\ c.target_end > 20240229

\* ------------------------------------------------------------------ C3
PhaseIdOf(d, project_id, pnum) ==
    (CHOOSE ph \in PhasesOf(d, project_id) : ph.phase_number = pnum).id

\* C3: the dependency edges of every committed project are exactly the
\* template's edges whose two phase numbers are phases of the template, each
\* translated to the ids of this project's phases with those numbers.
C3_DependencyTranslation ==
    \A p \in db.projects :
        LET nums == {tp.phase_number : tp \in TemplatePhasesOf(db, p.template_id)}
            kept == {e \in TemplateDepsOf(db, p.template_id) :
                        e.phase_number \in nums /\ e.depends_on_phase_number \in nums}
        IN {<<e.phase_id, e.depends_on_phase_id>> : e \in DepsOf(db, p.id)}
             = {<<PhaseIdOf(db, p.id, e.phase_number),
                  PhaseIdOf(db, p.id, e.depends_on_phase_number)>> : e \in kept}

\* a second project committed from a template with edge 4 -> 1 between two of
\* its phases and edge 5 -> 9 to a phase it does not have: one edge is kept
C3_Witness ==
    \E p \in db.projects :
        /\ p.id = 2
        /\ Cardinality(TemplateDepsOf(db, p.template_id)) = 2
        /\ Cardinality(DepsOf(db, p.id)) = 1
        /\ last = Response("api_create_project", 200, p.id, "ok")

\* ------------------------------------------------------------------ C4
RowsOfProject(d, project_id) ==
    {r \in d.projects : r.id = project_id}
      \cup PhasesOf(d, project_id)
      \cup {t \in d.tasks : \E ph \in PhasesOf(d, project_id) : t.phase_id = ph.id}
      \cup DepsOf(d, project_id)

\* C4: a create-project request that ends in an error after its project row
\* was inserted leaves the committed database as it was before the request,
\* with no row of that project in it.
C4_InstantiationAtomic ==
    [][(conn.pc # "idle" /\ conn'.pc = "idle" /\ last'.code # 200)
          => (db' = db /\ RowsOfProject(db', conn.project_id) = {})]_vars

\* the request failed with TypeError on a NULL duration of a later phase, after
\* phase 1 and its tasks had been inserted on the connection
C4_Witness ==
    /\ last.op = "api_create_project" /\ last.code = 500 /\ last.arg = "TypeError"
    /\ last.id = 2
    /\ \E tp \in TemplatePhasesOf(db, 1) :
           tp.phase_number = 1 /\ tp.duration_days # NULL
             /\ TemplateTasksOf(db, tp.id) # {}
    /\ conn = Idle

\* ------------------------------------------------ GET /project/{id}
\* the deps query: the project's edges joined to both of their phases
ProjectDeps(d, project_id) ==
    {e \in DepsOf(d, project_id) :
        e.phase_id \in Ids(d.phases) /\ e.depends_on_phase_id \in Ids(d.phases)}

\* phase_status.get(id): the dict holds the phases of this project only
phase_status_get(d, project_id, phase_id) ==
    IF phase_id \in Ids(PhasesOf(d, project_id))
    THEN RowById(d.phases, phase_id).status
    ELSE "None"

\* variant: a phase is locked by a pending prerequisite only
is_locked_pending(d, project_id, ph) ==
    \E e \in ProjectDeps(d, project_id) :
        /\ e.phase_id = ph.id
        /\ phase_status_get(d, project_id, e.depends_on_phase_id) = "pending"

\* ph["is_locked"] = any(phase_status.get(d["depends_on_phase_id"]) != "completed" ...)
is_locked(d, project_id, ph) ==
    \E e \in ProjectDeps(d, project_id) :
        /\ e.phase_id = ph.id
        /\ phase_status_get(d, project_id, e.depends_on_phase_id) # "completed"

\* ------------------------------------------- POST /api/task/{id}/status
StatusInputs == Statuses \cup {"done"}

\* variant: in_progress stamps started_at on every call
TaskAfterRestart(t, new_status, now_str) ==
    IF new_status = "in_progress"
    THEN [t EXCEPT !.status = new_status, !.started_at = now_str]
    ELSE IF new_status = "completed"
    THEN [t EXCEPT !.status = new_status, !.completed_at = now_str]
    ELSE [t EXCEPT !.status = new_status, !.started_at = NULL, !.completed_at = NULL]

\* variant: in_progress also clears completed_at
TaskAfterReopen(t, new_status, now_str) ==
    IF new_status = "in_progress"
    THEN [t EXCEPT !.status = new_status,
                   !.started_at = IF @ = NULL THEN now_str ELSE @,
                   !.completed_at = NULL]
    ELSE IF new_status = "completed"
    THEN [t EXCEPT !.status = new_status, !.completed_at = now_str]
    ELSE [t EXCEPT !.status = new_status, !.started_at = NULL, !.completed_at = NULL]

\* the three UPDATE tasks statements; now_str is datetime.now() to the second
TaskAfter(t, new_status, now_str) ==
    IF new_status = "in_progress"
    THEN [t EXCEPT !.status = new_status,
                   !.started_at = IF @ = NULL THEN now_str ELSE @]
    ELSE IF new_status = "completed"
    THEN [t EXCEPT !.status = new_status, !.completed_at = now_str]
    ELSE [t EXCEPT !.status = new_status, !.started_at = NULL, !.completed_at = NULL]

\* variant: the second branch tests the in_progress count alone
PhaseAfterActiveOnly(ph, total, done, prog, now_str) ==
    IF done = total /\ total > 0
    THEN [ph EXCEPT !.status = "completed", !.completed_at = now_str]
    ELSE IF prog > 0
    THEN [ph EXCEPT !.status = "in_progress",
                    !.started_at = IF @ = NULL THEN now_str ELSE @]
    ELSE [ph EXCEPT !.status = "pending"]

\* the UPDATE phases statement chosen from the three counts
PhaseAfter(ph, total, done, prog, now_str) ==
    IF done = total /\ total > 0
    THEN [ph EXCEPT !.status = "completed", !.completed_at = now_str]
    ELSE IF prog > 0 \/ done > 0
    THEN [ph EXCEPT !.status = "in_progress",
                    !.started_at = IF @ = NULL THEN now_str ELSE @]
    ELSE [ph EXCEPT !.status = "pending"]

CountStatus(d, phase_id, status) ==
    Cardinality({t \in TasksOf(d, phase_id) : t.status = status})

\* variant: the UPDATE reaches every task of the phase
SetTaskStatusOfPhase(d, task_id, new_status, now_str) ==
    LET found == {t \in d.tasks : t.id = task_id}
    IN IF found = {} THEN d
       ELSE LET pid == (CHOOSE t \in found : TRUE).phase_id
                d1 == [d EXCEPT !.tasks = {IF t.phase_id = pid
                                           THEN TaskAfter(t, new_status, now_str)
                                           ELSE t : t \in @}]
            IN [d1 EXCEPT !.phases =
                   {IF ph.id = pid
                    THEN PhaseAfter(ph, Cardinality(TasksOf(d1, pid)),
                                    CountStatus(d1, pid, "completed"),
                                    CountStatus(d1, pid, "in_progress"), now_str)
                    ELSE ph : ph \in @}]

\* the statements of the handler on its connection, for a valid status
SetTaskStatus(d, task_id, new_status, now_str) ==
    LET d1 == [d EXCEPT !.tasks = {IF t.id = task_id
                                   THEN TaskAfter(t, new_status, now_str)
                                   ELSE t : t \in @}]
        found == {t \in d1.tasks : t.id = task_id}
    IN IF found = {} THEN d1
       ELSE LET pid == (CHOOSE t \in found : TRUE).phase_id
                total == Cardinality(TasksOf(d1, pid))
                done == CountStatus(d1, pid, "completed")
                prog == CountStatus(d1, pid, "in_progress")
            IN [d1 EXCEPT !.phases = {IF ph.id = pid
                                      THEN PhaseAfter(ph, total, done, prog, now_str)
                                      ELSE ph : ph \in @}]

update_task_status(task_id, new_status) ==
    /\ conn.pc = "idle"
    /\ IF new_status \notin Statuses
       THEN /\ db' = db
            /\ last' = Response("update_task_status", 400, 0, "Invalid status")
       ELSE /\ db' = db_commit(db, SetTaskStatus(db, task_id, new_status, now))
            /\ last' = Response("update_task_status", 200, 0, "ok")
    /\ UNCHANGED <<conn, now>>

\* a task id of the database, or the next id, which no task has
TaskIdInputs == Ids(db.tasks) \cup {NextId(db, "tasks")}

\* the wall clock reaches the next second
Tick ==
    /\ now < MaxTime
    /\ now' = now + 1
    /\ UNCHANGED <<db, conn, last>>

\* --------------------------------------------------- the status engine
\* One authored template: a single phase of three tasks, or phase 1 with two
\* tasks and phase 4 with one task, phase 4 depending on phase 1.
Init ==
    /\ \E pnums \in {{1}, {1, 4}} :
           db = AuthoredDB(pnums,
                           [n \in pnums |-> IF n = 1 THEN 7 ELSE 14],
                           [n \in pnums |-> IF n = 4 THEN 1 ELSE 4 - Cardinality(pnums)],
                           FALSE, {<<4, 1>>})
    /\ conn = Idle
    /\ now = 1
    /\ last = NoRequest

\* project creation, while the tasks table stays within MaxTaskRows rows
BoundedCreateProject ==
    \E name \in ProjectNames, template_id \in {1} :
        /\ Cardinality(db.tasks)
             + Cardinality({tt \in db.template_tasks :
                   \E tp \in TemplatePhasesOf(db, template_id) :
                       tt.template_phase_id = tp.id}) <= MaxTaskRows
        /\ api_create_project(name, template_id, 20240215)

Next ==
    \/ BoundedCreateProject
    \/ CreateProjectSteps
    \/ \E task_id \in TaskIdInputs, new_status \in StatusInputs :
           update_task_status(task_id, new_status)
    \/ Tick

Spec == Init /\ [][Next]_vars

\* ------------------------------------------------------------------ C6
AllTasksCompleted(d, phase_id) ==
    /\ TasksOf(d, phase_id) # {}
    /\ \A t \in TasksOf(d, phase_id) : t.status = "completed"

\* the edges B -> A where A is the only prerequisite of B and has none itself
SingleEdges(d) ==
    {e \in d.phase_dependencies :
        /\ \A o \in d.phase_dependencies : o.phase_id = e.phase_id => o = e
        /\ \A o \in d.phase_dependencies : o.phase_id # e.depends_on_phase_id}

C6_LockState ==
    \A e \in SingleEdges(db) :
        LET A == RowById(db.phases, e.depends_on_phase_id)
            B == RowById(db.phases, e.phase_id)
        IN /\ is_locked(db, B.project_id, B) <=> ~AllTasksCompleted(db, A.id)
           /\ ~is_locked(db, A.project_id, A)
           /\ (A.status = "pending" => is_locked(db, B.project_id, B))

C6_LockStep ==
    \A e \in SingleEdges(db) :
        LET A == RowById(db.phases, e.depends_on_phase_id)
            B == RowById(db.phases, e.phase_id)
        IN (e \in db'.phase_dependencies
              /\ A.status # RowById(db'.phases, A.id).status)
             => /\ RowById(db'.phases, B.id) = B
                /\ TasksOf(db', B.id) = TasksOf(db, B.id)
                /\ is_locked(db', B.project_id, B)
                     <=> RowById(db'.phases, A.id).status # "completed"

\* C6: where phase B depends only on phase A, B is reported locked exactly
\* while not all of A's tasks are completed (so while A is pending) and A is
\* reported unlocked; a step that changes A's status leaves B's row and B's
\* tasks as they were, and B is then locked iff A is not completed.
C6_LockFollowsRollup == []C6_LockState /\ [][C6_LockStep]_vars

\* A was completed and has been reopened: B, still untouched, is locked again
C6_Witness ==
    \E e \in SingleEdges(db) :
        LET A == RowById(db.phases, e.depends_on_phase_id)
            B == RowById(db.phases, e.phase_id)
        IN /\ A.status = "in_progress" /\ A.completed_at # NULL
           /\ Untouched(B) /\ \A t \in TasksOf(db, B.id) : Untouched(t)
           /\ is_locked(db, B.project_id, B)

\* ------------------------------------------------------------------ C7
RollupStatus(d, phase_id) ==
    LET total == Cardinality(TasksOf(d, phase_id))
        done == CountStatus(d, phase_id, "completed")
        active == CountStatus(d, phase_id, "in_progress")
    IN IF done = total /\ total > 0 THEN "completed"
       ELSE IF active > 0 \/ done > 0 THEN "in_progress"
       ELSE "pending"

\* C7: right after a successful status update of a task, the task's phase has
\* the status the rollup rule gives for its tasks, and a completed phase has
\* completed_at set.
C7_RollupRule ==
    [][\A task_id \in Ids(db.tasks), new_status \in Statuses :
          update_task_status(task_id, new_status) =>
              LET ph == RowById(db'.phases, RowById(db'.tasks, task_id).phase_id)
              IN /\ ph.status = RollupStatus(db', ph.id)
                 /\ (ph.status = "completed" => ph.completed_at # NULL)]_vars

\* a phase of three tasks that was completed and then had one task reverted
\* to pending: two tasks completed, the phase in_progress
C7_Witness ==
    /\ last.op = "update_task_status" /\ last.code = 200
    /\ \E ph \in db.phases :
           /\ Cardinality(TasksOf(db, ph.id)) = 3
           /\ CountStatus(db, ph.id, "completed") = 2
           /\ CountStatus(db, ph.id, "pending") = 1
           /\ ph.completed_at # NULL
           /\ ph.status = "in_progress"

\* ------------------------------------------------------------------ C8
TaskIn(d, task_id) == RowById(d.tasks, task_id)

PhaseOfTask(d, task_id) == RowById(d.phases, TaskIn(d, task_id).phase_id)

\* C8 as claimed: from every reachable state, for every task and status,
\* applying the status now and again (in the same second or a later one)
\* leaves the task's status and the phase's row as one application does.
C8_RollupIdempotent ==
    \A task_id \in Ids(db.tasks), new_status \in Statuses, later \in now..MaxTime :
        LET once == SetTaskStatus(db, task_id, new_status, now)
            twice == SetTaskStatus(once, task_id, new_status, later)
        IN /\ TaskIn(twice, task_id).status = TaskIn(once, task_id).status
           /\ PhaseOfTask(twice, task_id) = PhaseOfTask(once, task_id)

\* C8 amended: the second application changes nothing but completed_at: for
\* status completed the task's completed_at, and the phase's completed_at when
\* the phase is completed, hold the time of the second call; every other
\* column of the task and of the phase, and both rows entirely for pending and
\* in_progress, are as after one application.
C8_IdempotentButCompletedAt ==
    \A task_id \in Ids(db.tasks), new_status \in Statuses, later \in now..MaxTime :
        LET once == SetTaskStatus(db, task_id, new_status, now)
            twice == SetTaskStatus(once, task_id, new_status, later)
            t1 == TaskIn(once, task_id)
            t2 == TaskIn(twice, task_id)
            p1 == PhaseOfTask(once, task_id)
            p2 == PhaseOfTask(twice, task_id)
        IN /\ [t2 EXCEPT !.completed_at = NULL] = [t1 EXCEPT !.completed_at = NULL]
           /\ [p2 EXCEPT !.completed_at = NULL] = [p1 EXCEPT !.completed_at = NULL]
           /\ (new_status # "completed" => t2 = t1 /\ p2 = p1)
           /\ (new_status = "completed" =>
                 /\ t2.completed_at = later
                 /\ IF p2.status = "completed" THEN p2.completed_at = later
                                               ELSE p2 = p1)

\* a task and its phase completed in second 1, the clock in second 2:
\* completing the task again moves both completed_at to 2
C8_Witness ==
    /\ last.op = "update_task_status" /\ last.code = 200
    /\ now = 2
    /\ \E t \in db.tasks :
           /\ t.status = "completed" /\ t.completed_at = 1
           /\ PhaseOfTask(db, t.id).status = "completed"
           /\ PhaseOfTask(db, t.id).completed_at = 1
           /\ PhaseOfTask(SetTaskStatus(db, t.id, "completed", now), t.id).completed_at = 2

\* ------------------------------------------------------------------ C9
\* C9 as claimed: pending tasks have both timestamps NULL, in_progress tasks
\* have started_at set and completed_at NULL, completed tasks have both set.
C9_TimestampConsistency ==
    \A t \in db.tasks :
        /\ (t.status = "pending" => t.started_at = NULL /\ t.completed_at = NULL)
        /\ (t.status = "in_progress" => t.started_at # NULL /\ t.completed_at = NULL)
        /\ (t.status = "completed" => t.started_at # NULL /\ t.completed_at # NULL)

\* ----------------------------------------------------------------- C10
\* C10: a status update to in_progress sets started_at to the current time
\* only if it was NULL and leaves completed_at as it was; to completed it sets
\* completed_at to the current time; to pending it sets both to NULL.
C10_FirstStart ==
    [][\A task_id \in Ids(db.tasks), new_status \in Statuses :
          update_task_status(task_id, new_status) =>
              LET t == TaskIn(db, task_id)
                  u == TaskIn(db', task_id)
              IN /\ (new_status = "in_progress" =>
                       /\ u.started_at = IF t.started_at = NULL THEN now
                                                                ELSE t.started_at
                       /\ u.completed_at = t.completed_at)
                 /\ (new_status = "completed" => u.completed_at = now)
                 /\ (new_status = "pending" =>
                       u.started_at = NULL /\ u.completed_at = NULL)]_vars

\* a task started in second 1, completed in second 2 and set in_progress
\* again: started_at is still 1 and completed_at still 2
C10_Witness ==
    /\ last.op = "update_task_status" /\ last.code = 200
    /\ \E t \in db.tasks :
           t.status = "in_progress" /\ t.started_at = 1 /\ t.completed_at = 2

\* ------------------------------------------------- phase and task CRUD
\* ON DELETE CASCADE from tasks: the tasks' actions and deadlines
DeleteTasks(d, gone) ==
    [d EXCEPT !.tasks = {t \in @ : t.id \notin gone},
              !.task_actions = {a \in @ : a.task_id \notin gone},
              !.task_deadlines = {td \in @ : td.task_id \notin gone}]

\* ON DELETE CASCADE from phases: the phase's tasks with what they own, the
\* phase's deadlines, and the dependency edges that name the phase on either
\* side
DeletePhases(d, gone) ==
    LET tasksGone == {t.id : t \in {t \in d.tasks : t.phase_id \in gone}}
    IN [DeleteTasks(d, tasksGone) EXCEPT
                 !.phases = {ph \in @ : ph.id \notin gone},
                 !.phase_deadlines = {pd \in @ : pd.phase_id \notin gone},
                 !.phase_dependencies =
                     {e \in @ : e.phase_id \notin gone
                                 /\ e.depends_on_phase_id \notin gone}]

\* "for dep_id in body.get("depends_on", []): INSERT INTO phase_dependencies"
RECURSIVE InsertPrereqs(_, _, _, _)
InsertPrereqs(w, project_id, phase_id, depends_on) ==
    IF depends_on = <<>> THEN w
    ELSE InsertPrereqs(
             Insert(w, "phase_dependencies",
                    [id |-> NextId(w, "phase_dependencies"), project_id |-> project_id,
                     phase_id |-> phase_id, depends_on_phase_id |-> Head(depends_on)]),
             project_id, phase_id, Tail(depends_on))

\* POST /api/phase/create with body {project_id, phase_number, phase_name,
\* depends_on}; no target dates given
create_phase(project_id, phase_number, depends_on) ==
    /\ conn.pc = "idle"
    /\ db.seq["phases"] < MaxPhaseRows
    /\ LET phase_id == NextId(db, "phases")
           w1 == Insert(db, "phases",
                     [id |-> phase_id, project_id |-> project_id,
                      phase_number |-> phase_number, phase_name |-> "Extra",
                      status |-> "pending", target_start |-> NULL,
                      target_end |-> NULL, started_at |-> NULL,
                      completed_at |-> NULL])
       IN IF \/ project_id \notin Ids(db.projects)
             \/ \E i \in 1..Len(depends_on) : depends_on[i] \notin Ids(w1.phases)
             \/ \E i, j \in 1..Len(depends_on) : i # j /\ depends_on[i] = depends_on[j]
          THEN \* FOREIGN KEY or UNIQUE constraint failed: IntegrityError
               /\ db' = get_db_close(db, w1)
               /\ last' = Response("create_phase", 500, 0, "IntegrityError")
          ELSE /\ db' = db_commit(db, InsertPrereqs(w1, project_id, phase_id, depends_on))
               /\ last' = Response("create_phase", 200, 0, "ok")
    /\ UNCHANGED <<conn, now>>

\* PUT /api/phase/{id} with body {status}: status=COALESCE(?, status)
update_phase(phase_id, status) ==
    /\ conn.pc = "idle"
    /\ db' = db_commit(db, [db EXCEPT !.phases =
                               {IF ph.id = phase_id THEN [ph EXCEPT !.status = status]
                                                    ELSE ph : ph \in @}])
    /\ last' = Response("update_phase", 200, 0, "ok")
    /\ UNCHANGED <<conn, now>>

\* DELETE /api/phase/{id}
delete_phase(phase_id) ==
    /\ conn.pc = "idle"
    /\ db' = db_commit(db, DeletePhases(db, {phase_id}))
    /\ last' = Response("delete_phase", 200, 0, "ok")
    /\ UNCHANGED <<conn, now>>

\* DELETE /api/task/{id}
delete_task(task_id) ==
    /\ conn.pc = "idle"
    /\ db' = db_commit(db, DeleteTasks(db, {task_id}))
    /\ last' = Response("delete_task", 200, 0, "ok")
    /\ UNCHANGED <<conn, now>>

\* a phase id of the database, the id the next phase gets, and an id no phase has
PhaseIdInputs == Ids(db.phases) \cup {NextId(db, "phases"), NextId(db, "phases") + 1}

\* depends_on: no prerequisite or one
PrereqInputs == {<<>>} \cup {<<id>> : id \in PhaseIdInputs}

\* ------------------------------------------- the engine with phase editing
\* One authored template: phases 1 and 4 with one task each, 4 depending on 1.
InitPhases ==
    /\ db = AuthoredDB({1, 4}, [n \in {1, 4} |-> 14], [n \in {1, 4} |-> 1],
                       FALSE, {<<4, 1>>})
    /\ conn = Idle
    /\ now = 1
    /\ last = NoRequest

\* project creation, while the task ids handed out stay within MaxTaskRows
NextPhases ==
    \/ \E name \in ProjectNames, template_id \in TemplateIds :
           /\ db.seq["tasks"]
                + Cardinality({tt \in db.template_tasks :
                      \E tp \in TemplatePhasesOf(db, template_id) :
                          tt.template_phase_id = tp.id}) <= MaxTaskRows
           /\ api_create_project(name, template_id, 20240215)
    \/ CreateProjectSteps
    \/ \E task_id \in TaskIdInputs, new_status \in Statuses :
           update_task_status(task_id, new_status)
    \/ \E project_id \in 1..2, depends_on \in PrereqInputs :
           create_phase(project_id, 6, depends_on)
    \/ \E phase_id \in Ids(db.phases) : delete_phase(phase_id)
    \/ \E task_id \in Ids(db.tasks) : delete_task(task_id)

SpecPhases == InitPhases /\ [][NextPhases]_vars

\* ------------------------------------------------------------------ C5
\* C5 as claimed: a phase is reported locked iff some phase it depends on has
\* a status other than completed.
C5_LockPredicate ==
    \A p \in db.projects :
        \A ph \in PhasesOf(db, p.id) :
            is_locked(db, p.id, ph)
              <=> \E e \in db.phase_dependencies :
                      /\ e.phase_id = ph.id
                      /\ RowById(db.phases, e.depends_on_phase_id).status # "completed"

\* ----------------------------------------------------------------- C11
\* C11: a status update whose status is none of pending, in_progress and
\* completed is answered with an error (400) and leaves every task and every
\* phase as it was, whether or not the task exists.
C11_InvalidStatusRejected ==
    [][\A task_id \in TaskIdInputs :
          \A new_status \in StatusInputs \ {"pending", "in_progress", "completed"} :
              update_task_status(task_id, new_status) =>
                  /\ last'.code = 400
                  /\ db'.tasks = db.tasks
                  /\ db'.phases = db.phases]_vars

\* the rejected request came while a task was in progress in a started phase
C11_Witness ==
    /\ last.op = "update_task_status" /\ last.code = 400
    /\ \E t \in db.tasks :
           t.status = "in_progress" /\ PhaseOfTask(db, t.id).status = "in_progress"

\* ------------------------------------------------- the template store
\* ON DELETE CASCADE from templates: the template's phases, their tasks, the
\* tasks' actions, and the template's dependency edges
DeleteTemplates(d, gone) ==
    LET phasesGone == {tp.id : tp \in {tp \in d.template_phases : tp.template_id \in gone}}
        tasksGone == {tt.id : tt \in {tt \in d.template_tasks :
                                         tt.template_phase_id \in phasesGone}}
    IN [d EXCEPT !.templates = {t \in @ : t.id \notin gone},
                 !.template_phases = {tp \in @ : tp.id \notin phasesGone},
                 !.template_tasks = {tt \in @ : tt.id \notin tasksGone},
                 !.template_task_actions = {a \in @ : a.template_task_id \notin tasksGone},
                 !.template_phase_dependencies = {e \in @ : e.template_id \notin gone}]

\* variant: the project count is not consulted
TemplateInUseNever(d, template_id) == FALSE

\* SELECT COUNT(*) FROM projects WHERE template_id=?  ... if count > 0
TemplateInUse(d, template_id) ==
    Cardinality({p \in d.projects : p.template_id = template_id}) > 0

\* DELETE /api/template/{template_id}
api_delete_template(template_id) ==
    /\ conn.pc = "idle"
    /\ IF template_id \notin Ids(db.templates)
       THEN /\ db' = db
            /\ last' = Response("api_delete_template", 404, template_id,
                                "Template not found")
       ELSE IF RowById(db.templates, template_id).is_default # 0
       THEN /\ db' = db
            /\ last' = Response("api_delete_template", 400, template_id,
                                "Cannot delete the default template")
       ELSE IF TemplateInUse(db, template_id)
       THEN /\ db' = db
            /\ last' = Response("api_delete_template", 400, template_id,
                                "Cannot delete: project(s) use this template")
       ELSE /\ db' = db_commit(db, DeleteTemplates(db, {template_id}))
            /\ last' = Response("api_delete_template", 200, template_id, "ok")
    /\ UNCHANGED <<conn, now>>

\* the columns of table template_tasks (init_database)
TemplateTaskColumns ==
    {"id", "template_phase_id", "task_order", "task_name", "category",
     "description", "ownership", "instructions", "jira_reference",
     "sample_reference", "notes", "automation_type", "automation_config"}

\* the columns clone and export read from a template_tasks row, and the
\* columns clone and import name in INSERT INTO template_tasks
TaskColumnsUsed ==
    {"template_phase_id", "task_order", "task_name", "category", "description",
     "ownership", "instructions", "estimated_minutes", "priority",
     "automation_type", "automation_config"}

\* st["estimated_minutes"] on a sqlite3.Row without that column raises
\* IndexError; INSERT naming a column the table lacks raises OperationalError
TaskColumnsRaise == ~(TaskColumnsUsed \subseteq TemplateTaskColumns)

\* the result of a handler: status code, the database it leaves committed,
\* the id it returns (0 if none)
Result(code, d, id) == [code |-> code, db |-> d, id |-> id]

\* the copies of the actions of template task st, for the new task
RECURSIVE CloneActions(_, _, _)
CloneActions(w, new_tt_id, sas) ==
    IF sas = <<>> THEN w
    ELSE CloneActions(
             Insert(w, "template_task_actions",
                    [Head(sas) EXCEPT !.id = NextId(w, "template_task_actions"),
                                      !.template_task_id = new_tt_id]),
             new_tt_id, Tail(sas))

\* the copies of the tasks sts (in task_order) under the new phase
RECURSIVE CloneTasks(_, _, _)
CloneTasks(w, new_tp_id, sts) ==
    IF sts = <<>> THEN w
    ELSE LET st == Head(sts)
             new_tt_id == NextId(w, "template_tasks")
             w1 == Insert(w, "template_tasks",
                          [st EXCEPT !.id = new_tt_id, !.template_phase_id = new_tp_id])
             sas == OrderBy({a \in w.template_task_actions :
                                a.template_task_id = st.id}, "id")
         IN CloneTasks(CloneActions(w1, new_tt_id, sas), new_tp_id, Tail(sts))

\* the copies of the phases sps (in phase_number order) under the new template
RECURSIVE ClonePhases(_, _, _)
ClonePhases(w, new_tid, sps) ==
    IF sps = <<>> THEN w
    ELSE LET sp == Head(sps)
             new_tp_id == NextId(w, "template_phases")
             w1 == Insert(w, "template_phases",
                          [sp EXCEPT !.id = new_tp_id, !.template_id = new_tid])
             sts == OrderBy({tt \in w.template_tasks : tt.template_phase_id = sp.id},
                            "task_order")
         IN ClonePhases(CloneTasks(w1, new_tp_id, sts), new_tid, Tail(sps))

\* the copies of the dependency edges sds under the new template
RECURSIVE CloneDeps(_, _, _)
CloneDeps(w, new_tid, sds) ==
    IF sds = <<>> THEN w
    ELSE CloneDeps(
             Insert(w, "template_phase_dependencies",
                    [Head(sds) EXCEPT !.id = NextId(w, "template_phase_dependencies"),
                                      !.template_id = new_tid]),
             new_tid, Tail(sds))

\* POST /api/template/{template_id}/clone with body {template_name}; "" when
\* the body gives no name
clone_template(d, template_id, name_given) ==
    IF template_id \notin Ids(d.templates)
    THEN Result(404, d, 0)
    ELSE LET src == RowById(d.templates, template_id)
             new_name == IF name_given = "" THEN src.template_name \o " (Copy)"
                                            ELSE name_given
             new_tid == NextId(d, "templates")
             w1 == Insert(d, "templates",
                          [id |-> new_tid, template_name |-> new_name,
                           is_default |-> 0])
             sps == OrderBy(TemplatePhasesOf(d, template_id), "phase_number")
             sds == OrderBy(TemplateDepsOf(d, template_id), "id")
             w2 == CloneDeps(ClonePhases(w1, new_tid, sps), new_tid, sds)
         IN IF \E t \in d.templates : t.template_name = new_name
            THEN Result(500, get_db_close(d, w1), 0)   \* UNIQUE(template_name)
            ELSE IF TaskColumnsRaise
                    /\ \E i \in 1..Len(sps) :
                           \E tt \in d.template_tasks : tt.template_phase_id = sps[i].id
            THEN Result(500, get_db_close(d, w2), 0)   \* IndexError at the first task
            ELSE Result(200, db_commit(d, w2), new_tid)

api_clone_template(template_id, name_given) ==
    /\ conn.pc = "idle"
    /\ LET r == clone_template(db, template_id, name_given)
       IN /\ db' = r.db
          /\ last' = Response("api_clone_template", r.code, r.id, name_given)
    /\ UNCHANGED <<conn, now>>

\* ---------------------------------------------------- export and import
\* the "tasks" list export builds for template phase tp
ExportTasks(d, tp) ==
    LET tts == OrderBy(TemplateTasksOf(d, tp.id), "task_order")
    IN [i \in 1..Len(tts) |->
           [task_order |-> tts[i].task_order, task_name |-> tts[i].task_name,
            ownership |-> tts[i].ownership]]

\* the "phases" list export builds
ExportPhases(d, template_id) ==
    LET tps == OrderBy(TemplatePhasesOf(d, template_id), "phase_number")
    IN [i \in 1..Len(tps) |->
           [phase_number |-> tps[i].phase_number, phase_name |-> tps[i].phase_name,
            duration_days |-> tps[i].duration_days, tasks |-> ExportTasks(d, tps[i])]]

\* the "dependencies" list export builds
ExportDeps(d, template_id) ==
    LET sds == OrderBy(TemplateDepsOf(d, template_id), "id")
    IN [i \in 1..Len(sds) |->
           [phase_number |-> sds[i].phase_number,
            depends_on_phase_number |-> sds[i].depends_on_phase_number]]

Payload(name, phases, dependencies) ==
    [template_name |-> name, phases |-> phases, dependencies |-> dependencies]

NoPayload == Payload("", <<>>, <<>>)

\* GET /api/template/{template_id}/export: the status code and the JSON body
api_export_template(d, template_id) ==
    IF template_id \notin Ids(d.templates)
    THEN [code |-> 404, body |-> NoPayload]
    ELSE IF TaskColumnsRaise
            /\ \E tp \in TemplatePhasesOf(d, template_id) : TemplateTasksOf(d, tp.id) # {}
    THEN [code |-> 500, body |-> NoPayload]     \* IndexError: tt["estimated_minutes"]
    ELSE [code |-> 200,
          body |-> Payload(RowById(d.templates, template_id).template_name,
                           ExportPhases(d, template_id),
                           ExportDeps(d, template_id))]

\* "for t in p.get("tasks", []): INSERT INTO template_tasks"
RECURSIVE ImportTasks(_, _, _)
ImportTasks(w, tp_id, ts) ==
    IF ts = <<>> THEN w
    ELSE ImportTasks(
             Insert(w, "template_tasks",
                    [id |-> NextId(w, "template_tasks"), template_phase_id |-> tp_id,
                     task_order |-> Head(ts).task_order,
                     task_name |-> Head(ts).task_name,
                     ownership |-> Head(ts).ownership]),
             tp_id, Tail(ts))

\* "for p in body.get("phases", []): INSERT INTO template_phases"
RECURSIVE ImportPhases(_, _, _)
ImportPhases(w, tid, ps) ==
    IF ps = <<>> THEN w
    ELSE LET p == Head(ps)
             tp_id == NextId(w, "template_phases")
             w1 == Insert(w, "template_phases",
                          [id |-> tp_id, template_id |-> tid,
                           phase_number |-> p.phase_number,
                           phase_name |-> p.phase_name,
                           duration_days |-> p.duration_days])
         IN ImportPhases(ImportTasks(w1, tp_id, p.tasks), tid, Tail(ps))

\* "for d in body.get("dependencies", []): INSERT INTO
\* template_phase_dependencies": the numbers are stored as given
RECURSIVE ImportDeps(_, _, _)
ImportDeps(w, tid, ds) ==
    IF ds = <<>> THEN w
    ELSE ImportDeps(
             Insert(w, "template_phase_dependencies",
                    [id |-> NextId(w, "template_phase_dependencies"),
                     template_id |-> tid,
                     phase_number |-> Head(ds).phase_number,
                     depends_on_phase_number |-> Head(ds).depends_on_phase_number]),
             tid, Tail(ds))

\* the name import stores: suffixed with the time when the name is taken
ImportName(d, name, now_str) ==
    IF \E t \in d.templates : t.template_name = name
    THEN name \o " (imported " \o ToString(now_str) \o ")"
    ELSE name

\* POST /api/template/import
import_template(d, body, now_str) ==
    LET name == ImportName(d, body.template_name, now_str)
        tid == NextId(d, "templates")
        w1 == Insert(d, "templates",
                     [id |-> tid, template_name |-> name, is_default |-> 0])
        w2 == ImportDeps(ImportPhases(w1, tid, body.phases), tid, body.dependencies)
        ps == body.phases
        ds == body.dependencies
    IN IF \/ \E t \in d.templates : t.template_name = name
          \/ \E i, j \in 1..Len(ps) : i # j /\ ps[i].phase_number = ps[j].phase_number
          \/ \E i, j \in 1..Len(ds) : i # j /\ ds[i] = ds[j]
       THEN Result(500, get_db_close(d, w2), 0)     \* IntegrityError: UNIQUE
       ELSE IF TaskColumnsRaise /\ \E i \in 1..Len(ps) : ps[i].tasks # <<>>
       THEN Result(500, get_db_close(d, w2), 0)     \* OperationalError: no such column
       ELSE Result(200, db_commit(d, w2), tid)

api_import_template(body) ==
    /\ conn.pc = "idle"
    /\ LET r == import_template(db, body, now)
       IN /\ db' = r.db
          /\ last' = Response("api_import_template", r.code, r.id, body.template_name)
    /\ UNCHANGED <<conn, now>>

\* --------------------------------------------- the template store at work
\* is_default is a column no handler writes: a default template has been
\* marked in the database file itself
WithDefault(d, template_id) ==
    [d EXCEPT !.templates =
        {IF t.id = template_id THEN [t EXCEPT !.is_default = 1] ELSE t : t \in @}]

\* Template 1 "Standard": phases 1 and 4, one task in phase 1, 4 depending on
\* 1.  Template 2 "Bare": phases 1 and 3 without tasks, 3 depending on 1.
\* None of them, or one of them, is the default template.
TwoTemplates ==
    LET d1 == AuthoredDB({1, 4}, [n \in {1, 4} |-> IF n = 1 THEN 7 ELSE 14],
                         [n \in {1, 4} |-> IF n = 1 THEN 1 ELSE 0],
                         FALSE, {<<4, 1>>})
        d2 == api_create_template(d1, "Bare")
        d3 == api_create_template_phase(d2, 2, 1, PhaseNameOf(1), 7)
        d4 == api_create_template_phase(d3, 2, 3, PhaseNameOf(3), 14)
    IN api_add_template_dep(d4, 2, 3, 1)

InitTpl ==
    /\ \E dflt \in 0..2 : db = WithDefault(TwoTemplates, dflt)
    /\ conn = Idle
    /\ now = 1
    /\ last = NoRequest

\* a template id of the database, or the next id, which no template has
TplIdInputs == Ids(db.templates) \cup {NextId(db, "templates")}

\* a payload with one task, and a payload whose edge names phase 9
TaskPayload ==
    Payload("Tasked",
            <<[phase_number |-> 1, phase_name |-> PhaseNameOf(1), duration_days |-> 7,
               tasks |-> <<[task_order |-> 1, task_name |-> <<1, 1>>,
                            ownership |-> "Platform Team"]>>]>>,
            <<>>)

DanglingPayload ==
    Payload("Dangling",
            <<[phase_number |-> 1, phase_name |-> PhaseNameOf(1), duration_days |-> 7,
               tasks |-> <<>>]>>,
            <<[phase_number |-> 1, depends_on_phase_number |-> 9]>>)

\* what a client posts to import: an exported template, or one of the two
ImportBodies ==
    {api_export_template(db, id).body :
        id \in {id \in Ids(db.templates) : api_export_template(db, id).code = 200}}
      \cup {TaskPayload, DanglingPayload}

NextTpl ==
    \/ \E template_id \in TplIdInputs : api_delete_template(template_id)
    \/ \E template_id \in TplIdInputs, name_given \in {"", "Bare"} :
           /\ db.seq["templates"] < MaxTemplates
           /\ api_clone_template(template_id, name_given)
    \/ \E body \in ImportBodies :
           /\ db.seq["templates"] < MaxTemplates
           /\ api_import_template(body)
    \/ \E template_id \in TplIdInputs :
           /\ db.seq["projects"] = 0
           /\ api_create_project("alpha", template_id, 20240215)
    \/ CreateProjectSteps
    \/ Tick

SpecTpl == InitTpl /\ [][NextTpl]_vars

\* ----------------------------------------------------------------- C12
\* C12: deleting a template that does not exist answers 404; deleting the
\* default template, or one that a project references, fails; in all three
\* cases the database (templates, phases, tasks, actions, edges) stays as it
\* was; any other template is removed, with everything it owns.
C12_DeleteGuards ==
    [][\A template_id \in TplIdInputs :
          api_delete_template(template_id) =>
              IF template_id \notin Ids(db.templates)
              THEN last'.code = 404 /\ db' = db
              ELSE IF \/ RowById(db.templates, template_id).is_default = 1
                      \/ \E p \in db.projects : p.template_id = template_id
              THEN last'.code >= 400 /\ db' = db
              ELSE /\ last'.code = 200
                   /\ template_id \notin Ids(db'.templates)
                   /\ TemplatePhasesOf(db', template_id) = {}
                   /\ TemplateDepsOf(db', template_id) = {}
                   /\ \A tt \in db'.template_tasks :
                          tt.template_phase_id \in Ids(db'.template_phases)]_vars

\* template 2 has been deleted, and the deletion of template 1, which is not
\* the default but has a project, has just been refused
C12_Witness ==
    /\ last.op = "api_delete_template" /\ last.code = 400 /\ last.id = 1
    /\ RowById(db.templates, 1).is_default = 0
    /\ \E p \in db.projects : p.template_id = 1
    /\ TemplatePhasesOf(db, 1) # {}
    /\ 2 \notin Ids(db.templates)

\* ----------------------------------------------------------------- C13
\* the phases of a template without their identities
PhaseShapes(d, template_id) ==
    {[phase_number |-> tp.phase_number, phase_name |-> tp.phase_name,
      duration_days |-> tp.duration_days,
      tasks |-> ExportTasks(d, tp)] : tp \in TemplatePhasesOf(d, template_id)}

\* the dependency edges of a template without their identities
EdgeShapes(d, template_id) ==
    {<<e.phase_number, e.depends_on_phase_number>> : e \in TemplateDepsOf(d, template_id)}

\* everything template template_id owns, identities included
Owned(d, template_id) ==
    <<{t \in d.templates : t.id = template_id},
      TemplatePhasesOf(d, template_id),
      {tt \in d.template_tasks :
          \E tp \in TemplatePhasesOf(d, template_id) : tt.template_phase_id = tp.id},
      TemplateDepsOf(d, template_id)>>

\* C13 as claimed: cloning any existing template without giving a name
\* succeeds and yields a template named "<name> (Copy)" with the same phases
\* (number, name, duration, tasks in order) and the same edges, and leaves the
\* source template as it was.
C13_CloneRoundTrip ==
    \A T \in db.templates :
        LET r == clone_template(db, T.id, "")
        IN /\ r.code = 200
           /\ RowById(r.db.templates, r.id).template_name = T.template_name \o " (Copy)"
           /\ PhaseShapes(r.db, r.id) = PhaseShapes(db, T.id)
           /\ EdgeShapes(r.db, r.id) = EdgeShapes(db, T.id)
           /\ Owned(r.db, T.id) = Owned(db, T.id)

\* ----------------------------------------------------------------- C14
\* C14 as claimed: every template can be exported, importing the export
\* succeeds, and the imported template has the same phases (number, name,
\* duration, tasks in order) and the same edges as the exported one.
C14_ExportImportRoundTrip ==
    \A T \in db.templates :
        LET e == api_export_template(db, T.id)
            r == import_template(db, e.body, now)
        IN /\ e.code = 200
           /\ r.code = 200
           /\ r.id \notin Ids(db.templates)
           /\ PhaseShapes(r.db, r.id) = PhaseShapes(db, T.id)
           /\ EdgeShapes(r.db, r.id) = EdgeShapes(db, T.id)

\* ----------------------------------------------------------------- C15
\* some dependency of the payload names a phase number the payload lacks
DanglingDeps(body) ==
    LET nums == {body.phases[i].phase_number : i \in 1..Len(body.phases)}
    IN \E i \in 1..Len(body.dependencies) :
           \/ body.dependencies[i].phase_number \notin nums
           \/ body.dependencies[i].depends_on_phase_number \notin nums

\* C15 as claimed: importing a payload with a dependency on a phase number
\* that is not among the payload's phases fails and stores nothing.
C15_ImportValidation ==
    [][\A body \in ImportBodies :
          (DanglingDeps(body) /\ api_import_template(body)) =>
              /\ last'.code # 200
              /\ db' = db]_vars

\* ------------------------------------------- Python float (IEEE binary64)
\* A natural number of any size is the sequence of its digits in base 2^14,
\* lowest first, without leading zeros; <<>> is 0.
Base == 2^14

RECURSIVE BN(_)
BN(n) == IF n = 0 THEN <<>> ELSE <<n % Base>> \o BN(n \div Base)

RECURSIVE Trim(_)
Trim(x) ==
    IF x = <<>> THEN x
    ELSE IF x[Len(x)] = 0 THEN Trim(SubSeq(x, 1, Len(x) - 1)) ELSE x

LowDigit(x) == IF x = <<>> THEN 0 ELSE Head(x)

HighDigits(x) == IF x = <<>> THEN <<>> ELSE Tail(x)

RECURSIVE AddC(_, _, _)
AddC(x, y, c) ==
    IF x = <<>> /\ y = <<>> THEN (IF c = 0 THEN <<>> ELSE <<c>>)
    ELSE LET s == LowDigit(x) + LowDigit(y) + c
         IN <<s % Base>> \o AddC(HighDigits(x), HighDigits(y), s \div Base)

AddBN(x, y) == AddC(x, y, 0)

\* x - y for x >= y
RECURSIVE SubB(_, _, _)
SubB(x, y, b) ==
    IF x = <<>> THEN <<>>
    ELSE LET d == LowDigit(x) - LowDigit(y) - b
         IN <<d % Base>> \o SubB(HighDigits(x), HighDigits(y), IF d < 0 THEN 1 ELSE 0)

SubBN(x, y) == Trim(SubB(x, y, 0))

\* -1, 0 or 1 as x < y, x = y or x > y
RECURSIVE CmpBN(_, _)
CmpBN(x, y) ==
    IF Len(x) # Len(y) THEN (IF Len(x) < Len(y) THEN -1 ELSE 1)
    ELSE IF x = <<>> THEN 0
    ELSE IF x[Len(x)] # y[Len(y)] THEN (IF x[Len(x)] < y[Len(y)] THEN -1 ELSE 1)
    ELSE CmpBN(SubSeq(x, 1, Len(x) - 1), SubSeq(y, 1, Len(y) - 1))

\* x * k for 0 <= k < Base
RECURSIVE MulC(_, _, _)
MulC(x, k, c) ==
    IF x = <<>> THEN (IF c = 0 THEN <<>> ELSE <<c>>)
    ELSE LET p == Head(x) * k + c
         IN <<p % Base>> \o MulC(Tail(x), k, p \div Base)

MulSmall(x, k) == Trim(MulC(x, k, 0))

RECURSIVE MulBN(_, _)
MulBN(x, y) ==
    IF y = <<>> \/ x = <<>> THEN <<>>
    ELSE AddBN(MulSmall(x, Head(y)), <<0>> \o MulBN(x, Tail(y)))

\* quotient and remainder of x by b, for 0 < b < Base
RECURSIVE DivRem(_, _)
DivRem(x, b) ==
    IF x = <<>> THEN [q |-> <<>>, r |-> 0]
    ELSE LET hi == DivRem(Tail(x), b)
             t == hi.r * Base + Head(x)
         IN [q |-> <<t \div b>> \o hi.q, r |-> t % b]

\* x * 2^k
RECURSIVE Shl(_, _)
Shl(x, k) ==
    IF x = <<>> \/ k = 0 THEN x
    ELSE IF k >= 14 THEN <<0>> \o Shl(x, k - 14)
    ELSE MulSmall(x, 2^k)

\* x \div 2^k, and whether a one was shifted out
RECURSIVE Shr(_, _)
Shr(x, k) ==
    IF x = <<>> \/ k = 0 THEN [q |-> x, sticky |-> FALSE]
    ELSE IF k >= 14
    THEN LET hi == Shr(Tail(x), k - 14)
         IN [q |-> hi.q, sticky |-> hi.sticky \/ Head(x) # 0]
    ELSE LET dr == DivRem(x, 2^k)
         IN [q |-> Trim(dr.q), sticky |-> dr.r # 0]

\* the number of bits of n
RECURSIVE IntBitLen(_)
IntBitLen(n) == IF n = 0 THEN 0 ELSE 1 + IntBitLen(n \div 2)

BitLen(x) == IF x = <<>> THEN 0 ELSE (Len(x) - 1) * 14 + IntBitLen(x[Len(x)])

\* A float is (-1)^s * m * 2^e with m of exactly 53 bits, or zero (m = <<>>).
Float(s, m, e) == [s |-> s, m |-> m, e |-> e]

FZero == Float(0, <<>>, 0)

\* 52 stored bits of the significand and the implicit leading one
Precision == 52 + 1

\* the float nearest to (-1)^s * x * 2^e, ties to even
RoundBN(s, x, e) ==
    IF x = <<>> THEN FZero
    ELSE IF BitLen(x) <= Precision
    THEN Float(s, Shl(x, Precision - BitLen(x)), e - (Precision - BitLen(x)))
    ELSE LET drop == BitLen(x) - Precision
             low == Shr(x, drop - 1)
             kept == Shr(low.q, 1)
             half == kept.sticky
             up == half /\ (low.sticky \/ Head(kept.q) % 2 = 1)
             r == IF up THEN AddBN(kept.q, <<1>>) ELSE kept.q
         IN IF BitLen(r) > Precision
            THEN Float(s, Shr(r, 1).q, e + drop + 1)
            ELSE Float(s, r, e + drop)

\* float(n) for an int n
FromInt(n) == RoundBN(IF n < 0 THEN 1 ELSE 0, BN(IF n < 0 THEN -n ELSE n), 0)

\* a / b for ints a and 0 < b < Base: the correctly rounded quotient
FDivInt(a, b) ==
    LET k == Precision + 1 + IntBitLen(b)
        abs == IF a < 0 THEN -a ELSE a
        dr == DivRem(Shl(BN(abs), k), b)
        x == Trim(AddBN(MulSmall(Trim(dr.q), 2), IF dr.r = 0 THEN <<>> ELSE <<1>>))
    IN RoundBN(IF a < 0 THEN 1 ELSE 0, x, -(k + 1))

\* f * g
FMul(f, g) == RoundBN((f.s + g.s) % 2, Trim(MulBN(f.m, g.m)), f.e + g.e)

\* f + g
FAdd(f, g) ==
    IF f.m = <<>> THEN g
    ELSE IF g.m = <<>> THEN f
    ELSE LET emin == IF f.e < g.e THEN f.e ELSE g.e
             X == Shl(f.m, f.e - emin)
             Y == Shl(g.m, g.e - emin)
             c == CmpBN(X, Y)
         IN IF f.s = g.s THEN RoundBN(f.s, AddBN(X, Y), emin)
            ELSE IF c = 0 THEN FZero
            ELSE IF c > 0 THEN RoundBN(f.s, SubBN(X, Y), emin)
            ELSE RoundBN(g.s, SubBN(Y, X), emin)

FNeg(f) == IF f.m = <<>> THEN f ELSE [f EXCEPT !.s = 1 - @]

\* f - g
FSub(f, g) == FAdd(f, FNeg(g))

\* f >= g
FGe(f, g) == LET d == FSub(f, g) IN d.m = <<>> \/ d.s = 0

\* ------------------------------------------------------------ rag_status
\* max(0, x) and min(100, y) of Python, on floats
PyMax0(x) == IF FGe(FZero, x) THEN FZero ELSE x

PyMin100(y) == IF FGe(y, FromInt(100)) THEN FromInt(100) ELSE y

IntMax(a, b) == IF a >= b THEN a ELSE b

\* rag_status(project) when date.today() is today; project carries
\* start_date, target_completion, total_tasks and completed_tasks
rag_status(project, today) ==
    IF project.start_date = NULL \/ project.target_completion = NULL
    THEN "gray"
    ELSE LET start == strptime(project.start_date)
             target == strptime(project.target_completion)
             total_days == IntMax(target - start, 1)
             elapsed == today - start
             expected_pct ==
                 PyMin100(PyMax0(FMul(FDivInt(elapsed, total_days), FromInt(100))))
             total == IF project.total_tasks = 0 THEN 1 ELSE project.total_tasks
             actual_pct == FMul(FDivInt(project.completed_tasks, total), FromInt(100))
             diff == FSub(actual_pct, expected_pct)
         IN IF FGe(diff, FromInt(-10)) THEN "green"
            ELSE IF FGe(diff, FromInt(-25)) THEN "amber"
            ELSE "red"

\* ------------------------------------------------- GET / (the dashboard)
\* the clock counts seconds from 2024-01-01 00:00:00; date.today() is its day
SecondsPerDay == 24 * 60 * 60

date_today(clock) == clock \div SecondsPerDay

\* SELECT p.*, (SELECT COUNT(*) ...) as total_tasks, (...) as completed_tasks
ProjectStats(d, p) ==
    LET mine == {t \in d.tasks : \E ph \in PhasesOf(d, p.id) : t.phase_id = ph.id}
    IN [start_date |-> p.start_date, target_completion |-> p.target_completion,
        total_tasks |-> Cardinality(mine),
        completed_tasks |-> Cardinality({t \in mine : t.status = "completed"})]

\* the dashboard computes the RAG colour of project project_id
dashboard(project_id) ==
    /\ conn.pc = "idle"
    /\ project_id \in Ids(db.projects)
    /\ last' = Response("dashboard", 200, project_id,
                        rag_status(ProjectStats(db, RowById(db.projects, project_id)),
                                   date_today(now)))
    /\ UNCHANGED <<db, conn, now>>

\* midnight passes
NextDay ==
    /\ date_today(now) < MaxDays
    /\ now' = now + SecondsPerDay
    /\ UNCHANGED <<db, conn, last>>

\* A database with one project and one phase of total tasks, the first done
\* of them completed on the first day.  NULL stands for a missing date: PUT
\* /api/project/{id} can store '' in either date column.
RagDB(start_date, target_completion, total, done) ==
    LET d1 == Insert(EmptyDB, "projects",
                     [id |-> 1, project_name |-> "alpha", template_id |-> 1,
                      start_date |-> start_date,
                      target_completion |-> target_completion])
        d2 == Insert(d1, "phases",
                     [id |-> 1, project_id |-> 1, phase_number |-> 1,
                      phase_name |-> PhaseNameOf(1),
                      status |-> IF done = 0 THEN "pending"
                                 ELSE IF done = total THEN "completed"
                                 ELSE "in_progress",
                      target_start |-> NULL, target_end |-> NULL,
                      started_at |-> IF 0 < done /\ done < total THEN 1 ELSE NULL,
                      completed_at |-> IF 0 < done /\ done = total THEN 1 ELSE NULL])
    IN [d2 EXCEPT !.tasks =
           {[id |-> k, phase_id |-> 1, task_order |-> k, task_name |-> <<1, k>>,
             ownership |-> "Platform Team",
             status |-> IF k <= done THEN "completed" ELSE "pending",
             started_at |-> NULL,
             completed_at |-> IF k <= done THEN 1 ELSE NULL] : k \in 1..total},
                   !.seq["tasks"] = total]

RagTaskCounts == {0, 3, 10}

InitRag ==
    /\ \E start_date \in {20240101, NULL},
          target_completion \in {20240101, 20240113, 20240121, NULL},
          total \in RagTaskCounts :
          \E done \in 0..total :
              db = RagDB(start_date, target_completion, total, done)
    /\ conn = Idle
    /\ now = 1
    /\ last = NoRequest

NextRag ==
    \/ \E project_id \in Ids(db.projects) : dashboard(project_id)
    \/ NextDay

SpecRag == InitRag /\ [][NextRag]_vars

\* ----------------------------------------------------------------- C16
\* a / b >= c as rationals, for b > 0
RatioGe(a, b, c) == a >= c * b

\* the colour by the stated rule, in exact arithmetic
RagByRule(p, today) ==
    IF p.start_date = NULL \/ p.target_completion = NULL THEN "gray"
    ELSE LET start == strptime(p.start_date)
             total_days == IntMax(strptime(p.target_completion) - start, 1)
             elapsed == today - start
             clamped == IF elapsed < 0 THEN 0
                        ELSE IF elapsed > total_days THEN total_days ELSE elapsed
             total == IntMax(p.total_tasks, 1)
             \* diff = 100*completed/total - 100*clamped/total_days
             num == 100 * p.completed_tasks * total_days - 100 * clamped * total
             den == total * total_days
         IN IF RatioGe(num, den, -10) THEN "green"
            ELSE IF RatioGe(num, den, -25) THEN "amber"
            ELSE "red"

\* C16 as claimed: the colour computed for every project is gray when a date
\* is missing, and otherwise green, amber or red as diff = actual_pct -
\* expected_pct is at least -10, at least -25, or below -25.
C16_RagScoring ==
    \A p \in db.projects :
        rag_status(ProjectStats(db, p), date_today(now))
            = RagByRule(ProjectStats(db, p), date_today(now))

\* ------------------------------------------------------ deadline tracking
\* variance_days is None or a number of days
None == <<>>

Some(v) == <<v>>

\* variant: agreed minus actual
calc_variance_reversed(agreed_date, actual_date) ==
    IF agreed_date = NULL \/ actual_date = NULL THEN None
    ELSE Some(strptime(agreed_date) - strptime(actual_date))

\* calc_variance(agreed_date, actual_date): NULL is a date the body lacks
calc_variance(agreed_date, actual_date) ==
    IF agreed_date = NULL \/ actual_date = NULL THEN None
    ELSE Some(strptime(actual_date) - strptime(agreed_date))

DeadlineBody(planned, agreed, actual, notes) ==
    [planned_date |-> planned, agreed_date |-> agreed, actual_date |-> actual,
     notes |-> notes]

\* variant: the UPDATE keeps a stored actual_date when the body has none
UpdateDeadlineCoalesce(r, body, variance) ==
    [r EXCEPT !.planned_date = body.planned_date, !.agreed_date = body.agreed_date,
              !.actual_date = IF body.actual_date = NULL THEN @ ELSE body.actual_date,
              !.variance_days = variance, !.notes = body.notes]

\* UPDATE ... SET planned_date=?, agreed_date=?, actual_date=?,
\* variance_days=?, notes=? WHERE id=?
UpdateDeadline(r, body, variance) ==
    [r EXCEPT !.planned_date = body.planned_date, !.agreed_date = body.agreed_date,
              !.actual_date = body.actual_date,
              !.variance_days = variance, !.notes = body.notes]

\* POST /api/phase/{phase_id}/deadline
api_set_phase_deadline(phase_id, ownership, body) ==
    /\ conn.pc = "idle"
    /\ LET variance == calc_variance(body.agreed_date, body.actual_date)
           existing == {pd \in db.phase_deadlines :
                           pd.phase_id = phase_id /\ pd.ownership = ownership}
           w == IF existing # {}
                THEN [db EXCEPT !.phase_deadlines =
                         {IF pd \in existing THEN UpdateDeadline(pd, body, variance)
                                             ELSE pd : pd \in @}]
                ELSE Insert(db, "phase_deadlines",
                            [id |-> NextId(db, "phase_deadlines"),
                             phase_id |-> phase_id, ownership |-> ownership,
                             planned_date |-> body.planned_date,
                             agreed_date |-> body.agreed_date,
                             actual_date |-> body.actual_date,
                             variance_days |-> variance, notes |-> body.notes])
       IN IF existing = {} /\ phase_id \notin Ids(db.phases)
          THEN \* FOREIGN KEY (phase_id): IntegrityError
               /\ db' = get_db_close(db, w)
               /\ last' = Response("api_set_phase_deadline", 500, phase_id, None)
          ELSE /\ db' = db_commit(db, w)
               /\ last' = Response("api_set_phase_deadline", 200, phase_id, variance)
    /\ UNCHANGED <<conn, now>>

\* POST /api/task/{task_id}/deadline
api_set_task_deadline(task_id, body) ==
    /\ conn.pc = "idle"
    /\ LET variance == calc_variance(body.agreed_date, body.actual_date)
           existing == {td \in db.task_deadlines : td.task_id = task_id}
           w == IF existing # {}
                THEN [db EXCEPT !.task_deadlines =
                         {IF td \in existing THEN UpdateDeadline(td, body, variance)
                                             ELSE td : td \in @}]
                ELSE Insert(db, "task_deadlines",
                            [id |-> NextId(db, "task_deadlines"), task_id |-> task_id,
                             planned_date |-> body.planned_date,
                             agreed_date |-> body.agreed_date,
                             actual_date |-> body.actual_date,
                             variance_days |-> variance, notes |-> body.notes])
       IN IF existing = {} /\ task_id \notin Ids(db.tasks)
          THEN \* FOREIGN KEY (task_id): IntegrityError
               /\ db' = get_db_close(db, w)
               /\ last' = Response("api_set_task_deadline", 500, task_id, None)
          ELSE /\ db' = db_commit(db, w)
               /\ last' = Response("api_set_task_deadline", 200, task_id, variance)
    /\ UNCHANGED <<conn, now>>

\* the value of a big natural
RECURSIVE ToNat(_)
ToNat(x) == IF x = <<>> THEN 0 ELSE Head(x) + Base * ToNat(Tail(x))

\* round(f, 1) in tenths: the decimal nearest to the exact value of f, a tie
\* going to the even tenth
PyRound1(f) ==
    IF f.m = <<>> THEN 0
    ELSE LET x == MulSmall(f.m, 10)
             n == IF f.e >= 0 THEN ToNat(Shl(x, f.e))
                  ELSE LET low == Shr(x, (-f.e) - 1)
                           kept == Shr(low.q, 1)
                           up == kept.sticky
                                 /\ (low.sticky \/ LowDigit(kept.q) % 2 = 1)
                       IN ToNat(kept.q) + (IF up THEN 1 ELSE 0)
         IN IF f.s = 1 THEN -n ELSE n

\* variant: the deadlines of every project
ReportRowsAll(d, project_id) == d.phase_deadlines

\* FROM phase_deadlines pd JOIN phases ph ON pd.phase_id = ph.id
\* WHERE ph.project_id = ?
ReportRows(d, project_id) ==
    {pd \in d.phase_deadlines :
        \E ph \in d.phases : ph.id = pd.phase_id /\ ph.project_id = project_id}

\* SUM(variance_days) over the rows whose variance is not NULL
RECURSIVE SumVariance(_)
SumVariance(rowset) ==
    IF rowset = {} THEN 0
    ELSE LET r == CHOOSE r \in rowset : TRUE
         IN (IF r.variance_days = None THEN 0 ELSE r.variance_days[1])
            + SumVariance(rowset \ {r})

\* the summary of the report; avg_variance in tenths of a day
variance_stats(d, project_id) ==
    LET joined == ReportRows(d, project_id)
        known == {pd \in joined : pd.variance_days # None}
        avg == IF known = {} THEN None
               ELSE Some(FDivInt(SumVariance(known), Cardinality(known)))
    IN [total_deadlines |-> Cardinality(joined),
        on_time |-> Cardinality({pd \in joined :
                        pd.variance_days # None /\ pd.variance_days[1] <= 0}),
        minor_slip |-> Cardinality({pd \in known :
                        pd.variance_days[1] > 0 /\ pd.variance_days[1] <= 3}),
        major_slip |-> Cardinality({pd \in known : pd.variance_days[1] > 3}),
        avg_variance |-> IF avg = None \/ avg[1].m = <<>> THEN 0
                         ELSE PyRound1(avg[1])]

\* GET /api/project/{project_id}/variance
api_project_variance(project_id) ==
    /\ conn.pc = "idle"
    /\ last' = Response("api_project_variance", 200, project_id,
                        variance_stats(db, project_id))
    /\ UNCHANGED <<db, conn, now>>

\* --------------------------------------------- the deadlines of two projects
\* Project 1 has phases 1 and 2 and task 1; project 2 has phase 3, whose
\* deadline was met a week late.
DeadlineDB ==
    LET d1 == RagDB(20240101, 20240121, 1, 0)
        phase(id, project_id, phase_number) ==
            [id |-> id, project_id |-> project_id, phase_number |-> phase_number,
             phase_name |-> PhaseNameOf(phase_number), status |-> "pending",
             target_start |-> NULL, target_end |-> NULL,
             started_at |-> NULL, completed_at |-> NULL]
        d2 == Insert(d1, "projects",
                     [id |-> 2, project_name |-> "beta", template_id |-> 1,
                      start_date |-> 20240101, target_completion |-> 20240121])
        d3 == Insert(Insert(d2, "phases", phase(2, 1, 2)), "phases", phase(3, 2, 1))
    IN Insert(d3, "phase_deadlines",
              [id |-> 1, phase_id |-> 3, ownership |-> "Platform Team",
               planned_date |-> 20240105, agreed_date |-> 20240110,
               actual_date |-> 20240117,
               variance_days |-> calc_variance(20240110, 20240117),
               notes |-> "week late"])

InitDl ==
    /\ db = DeadlineDB
    /\ conn = Idle
    /\ now = 1
    /\ last = NoRequest

\* request bodies: a late, an open, an early, a slightly late and a punctual
\* deadline
DeadlineBodies ==
    {DeadlineBody(20240105, 20240110, 20240115, "late"),
     DeadlineBody(20240105, 20240110, NULL, ""),
     DeadlineBody(20240105, 20240110, 20240108, "early"),
     DeadlineBody(NULL, 20240110, 20240113, ""),
     DeadlineBody(20240105, 20240110, 20240110, "")}

TaskDeadlineBodies ==
    {DeadlineBody(20240105, 20240110, 20240115, "late"),
     DeadlineBody(20240105, NULL, 20240115, "")}

\* (phase_id, ownership): the phases of project 1 and a phase that is missing
DeadlineKeys ==
    {<<1, "Platform Team">>, <<1, "App Team">>, <<2, "Platform Team">>,
     <<9, "Platform Team">>}

NextDl ==
    \/ \E key \in DeadlineKeys, body \in DeadlineBodies :
          api_set_phase_deadline(key[1], key[2], body)
    \/ \E task_id \in {1, 9}, body \in TaskDeadlineBodies :
          api_set_task_deadline(task_id, body)
    \/ \E project_id \in {1, 2, 9} : api_project_variance(project_id)
    \/ delete_phase(2)

SpecDl == InitDl /\ [][NextDl]_vars

\* ----------------------------------------------------------------- C17
\* actual minus agreed in days when the body has both dates, else nothing
VarianceByRule(body) ==
    IF body.agreed_date # NULL /\ body.actual_date # NULL
    THEN Some(strptime(body.actual_date) - strptime(body.agreed_date))
    ELSE None

\* the record holds the dates, variance and notes of the call
HoldsCall(r, body) ==
    /\ r.planned_date = body.planned_date
    /\ r.agreed_date = body.agreed_date
    /\ r.actual_date = body.actual_date
    /\ r.variance_days = VarianceByRule(body)
    /\ r.notes = body.notes

C17_OnePerKey ==
    /\ \A r, s \in db.phase_deadlines :
          (r.phase_id = s.phase_id /\ r.ownership = s.ownership) => r = s
    /\ \A r, s \in db.task_deadlines : r.task_id = s.task_id => r = s

C17_PhaseCall ==
    \A key \in DeadlineKeys, body \in DeadlineBodies :
        api_set_phase_deadline(key[1], key[2], body) =>
            LET mine(d) == {pd \in d.phase_deadlines :
                               pd.phase_id = key[1] /\ pd.ownership = key[2]}
            IN /\ key[1] \in Ids(db.phases) =>
                     /\ Cardinality(mine(db')) = 1
                     /\ \A pd \in mine(db') : HoldsCall(pd, body)
               /\ db'.phase_deadlines \ mine(db') = db.phase_deadlines \ mine(db)
               /\ db'.task_deadlines = db.task_deadlines

C17_TaskCall ==
    \A task_id \in {1, 9}, body \in TaskDeadlineBodies :
        api_set_task_deadline(task_id, body) =>
            LET mine(d) == {td \in d.task_deadlines : td.task_id = task_id}
            IN /\ task_id \in Ids(db.tasks) =>
                     /\ Cardinality(mine(db')) = 1
                     /\ \A td \in mine(db') : HoldsCall(td, body)
               /\ db'.task_deadlines \ mine(db') = db.task_deadlines \ mine(db)
               /\ db'.phase_deadlines = db.phase_deadlines

\* C17: there is never more than one phase deadline per (phase_id, ownership)
\* nor more than one task deadline per task_id; a setPhaseDeadline call on an
\* existing phase leaves exactly one record for its pair, holding the call's
\* planned, agreed and actual dates, the variance of those dates and the
\* notes, and changes no record of another pair; a setTaskDeadline call does
\* the same per task_id.
C17_DeadlineUpsert ==
    []C17_OnePerKey /\ [][C17_PhaseCall /\ C17_TaskCall]_vars

\* the deadline of (1, Platform Team), inserted before that of phase 2, has
\* just been overwritten by a call without an actual date, and task 1 has a
\* deadline
C17_Witness ==
    /\ last.op = "api_set_phase_deadline" /\ last.code = 200 /\ last.id = 1
    /\ \E r, s \in db.phase_deadlines :
          /\ r.phase_id = 1 /\ r.ownership = "Platform Team"
          /\ s.phase_id = 2 /\ r.id < s.id
          /\ r.actual_date = NULL /\ r.variance_days = None
    /\ ~\E r \in db.phase_deadlines : r.phase_id = 1 /\ r.ownership = "App Team"
    /\ db.task_deadlines # {}

\* ----------------------------------------------------------------- C18
\* the calendar days from date a to date b
DaysFromTo(a, b) == strptime(b) - strptime(a)

VarianceRule(r) ==
    IF r.agreed_date # NULL /\ r.actual_date # NULL
    THEN /\ r.variance_days = Some(DaysFromTo(r.agreed_date, r.actual_date))
         /\ (r.actual_date > r.agreed_date) = (r.variance_days[1] > 0)
         /\ (r.actual_date < r.agreed_date) = (r.variance_days[1] < 0)
         /\ (r.agreed_date = 20240110 /\ r.actual_date = 20240115)
                => r.variance_days = Some(5)
    ELSE r.variance_days = None

\* C18: every stored phase or task deadline has variance_days equal to the
\* days from its agreed date to its actual date when it has both, positive
\* when the actual date is the later one and negative when it is the earlier
\* one, and no variance when either date is absent, also after an update that
\* removed a date; agreed 2024-01-10 and actual 2024-01-15 give 5.
C18_VarianceFormula ==
    \A r \in db.phase_deadlines \cup db.task_deadlines : VarianceRule(r)

\* (1, App Team) holds variance 5 for 2024-01-10 / 2024-01-15, (2, Platform
\* Team) holds an early deadline, and (1, Platform Team), inserted first,
\* lost its actual date in the call just made
C18_Witness ==
    /\ last.op = "api_set_phase_deadline" /\ last.code = 200 /\ last.id = 1
    /\ last.arg = None
    /\ \E r, s, u \in db.phase_deadlines :
          /\ r.phase_id = 1 /\ r.ownership = "Platform Team"
          /\ r.agreed_date = 20240110 /\ r.actual_date = NULL
          /\ r.variance_days = None
          /\ s.phase_id = 1 /\ s.ownership = "App Team" /\ r.id < s.id
          /\ s.agreed_date = 20240110 /\ s.actual_date = 20240115
          /\ s.variance_days = Some(5)
          /\ u.phase_id = 2 /\ u.variance_days = Some(-2)

\* ----------------------------------------------------------------- C19
\* the phase deadlines of the project that have a variance
Measured(d, project_id) ==
    {pd \in d.phase_deadlines :
        /\ pd.variance_days # None
        /\ RowById(d.phases, pd.phase_id).project_id = project_id}

Days(pd) == pd.variance_days[1]

Abs(n) == IF n < 0 THEN -n ELSE n

\* C19: the variance report of a project counts as on_time the project's
\* phase deadlines with a variance <= 0, as minor_slip those with a variance
\* in 1..3 and as major_slip those with a variance > 3, so the three counts
\* add up to the number of the project's phase deadlines that have a
\* variance; the reported mean (one decimal) is within 0.05 of the mean of
\* exactly those variances; deadlines of other projects and deadlines without
\* a variance count in no bucket and not in the mean.
C19_VarianceReport ==
    last.op = "api_project_variance" =>
        LET mine == Measured(db, last.id)
            stats == last.arg
        IN /\ stats.on_time = Cardinality({pd \in mine : Days(pd) <= 0})
           /\ stats.minor_slip =
                 Cardinality({pd \in mine : 0 < Days(pd) /\ Days(pd) <= 3})
           /\ stats.major_slip = Cardinality({pd \in mine : Days(pd) > 3})
           /\ stats.on_time + stats.minor_slip + stats.major_slip
                 = Cardinality(mine)
           /\ mine # {} =>
                 2 * Abs(10 * SumVariance(mine)
                         - stats.avg_variance * Cardinality(mine))
                     <= Cardinality(mine)

\* the report of project 1 with an early, a slightly late and an open
\* deadline, while project 2 has a late one: one on time, one minor slip,
\* none major, mean 0.5
C19_Witness ==
    /\ last.op = "api_project_variance" /\ last.id = 1
    /\ {pd.variance_days : pd \in ReportRows(db, 1)} = {Some(-2), Some(3), None}
    /\ \E pd \in db.phase_deadlines : pd.phase_id = 3 /\ pd.variance_days = Some(7)
    /\ last.arg.total_deadlines = 3
    /\ last.arg.on_time = 1 /\ last.arg.minor_slip = 1 /\ last.arg.major_slip = 0
    /\ last.arg.avg_variance = 5

\* ----------------------------------------------------------------- C20
C20_NoProjectWithoutTemplate ==
    \A p \in db.projects : p.template_id \in Ids(db.templates)

C20_MissingTaskReported ==
    \A task_id \in TaskIdInputs, new_status \in Statuses :
        (task_id \notin Ids(db.tasks) /\ update_task_status(task_id, new_status))
            => last'.code = 404

\* C20: an operation that names a missing entity answers NotFound and stores
\* nothing: no project is ever stored for a template id that no template has
\* (templates are never deleted here), and setTaskStatus on a task id that no
\* task has answers 404.
C20_NotFound ==
    []C20_NoProjectWithoutTemplate /\ [][C20_MissingTaskReported]_vars

\* ------------------------------------------------- editing tasks and phases
\* the columns of CREATE TABLE tasks
TaskTableColumns ==
    {"id", "phase_id", "task_order", "task_name", "category", "description",
     "ownership", "instructions", "jira_reference", "sample_reference", "notes",
     "status", "started_at", "completed_at", "completed_by", "is_blocked",
     "automation_type", "automation_config"}

\* the columns named by INSERT INTO tasks in create_task
CreateTaskColumns ==
    {"phase_id", "task_order", "task_name", "category", "description",
     "ownership", "estimated_minutes", "priority", "status"}

\* POST /api/task/create with body {phase_id, task_name}
create_task(phase_id, task_name) ==
    /\ conn.pc = "idle"
    /\ db.seq["tasks"] < MaxTaskRows
    /\ LET mx == MaxOrder(TasksOf(db, phase_id))
           task_id == NextId(db, "tasks")
           w == Insert(db, "tasks",
                    [id |-> task_id, phase_id |-> phase_id, task_order |-> mx + 1,
                     task_name |-> task_name, ownership |-> "Platform Team",
                     status |-> "pending", started_at |-> NULL,
                     completed_at |-> NULL])
       IN IF ~(CreateTaskColumns \subseteq TaskTableColumns)
          THEN \* table tasks has no column named estimated_minutes: OperationalError
               /\ db' = get_db_close(db, db)
               /\ last' = Response("create_task", 500, 0, "OperationalError")
          ELSE IF phase_id \notin Ids(db.phases)
          THEN \* FOREIGN KEY (phase_id): IntegrityError
               /\ db' = get_db_close(db, w)
               /\ last' = Response("create_task", 500, 0, "IntegrityError")
          ELSE /\ db' = db_commit(db, w)
               /\ last' = Response("create_task", 200, task_id, "ok")
    /\ UNCHANGED <<conn, now>>

\* PUT /api/task/{task_id} with body {ownership}
update_task(task_id, ownership) ==
    /\ conn.pc = "idle"
    /\ db' = db_commit(db, [db EXCEPT !.tasks =
                               {IF t.id = task_id THEN [t EXCEPT !.ownership = ownership]
                                                  ELSE t : t \in @}])
    /\ last' = Response("update_task", 200, 0, "ok")
    /\ UNCHANGED <<conn, now>>

\* One project is created from the template of InitPhases; its tasks and
\* phases are then edited.
NextEdit ==
    \/ /\ db.seq["projects"] = 0
       /\ api_create_project("alpha", 1, 20240215)
    \/ CreateProjectSteps
    \/ \E task_id \in TaskIdInputs, new_status \in Statuses :
           update_task_status(task_id, new_status)
    \/ \E phase_id \in PhaseIdInputs : create_task(phase_id, "extra")
    \/ \E task_id \in TaskIdInputs : update_task(task_id, "App Team")
    \/ \E task_id \in Ids(db.tasks) : delete_task(task_id)
    \/ \E phase_id \in Ids(db.phases), status \in Statuses :
           update_phase(phase_id, status)
    \/ Tick

SpecEdit == InitPhases /\ [][NextEdit]_vars

\* ----------------------------------------------------------------- C21
\* C21: in every committed state each phase's status is the rollup of its
\* tasks' statuses: completed iff it has tasks and all are completed,
\* in_progress iff some task is in_progress or completed but not all are
\* completed, pending otherwise.
C21_PhaseDerivedFromTasks ==
    \A ph \in db.phases : ph.status = RollupStatus(db, ph.id)

\* ------------------------------------------------------ editing a template
\* POST /api/template/{template_id}/phase
create_template_phase(template_id, pnum) ==
    /\ conn.pc = "idle"
    /\ db.seq["template_phases"] < MaxAuthorRows
    /\ LET w == api_create_template_phase(db, template_id, pnum, PhaseNameOf(pnum), 14)
       IN /\ db' = db_commit(db, w)
          /\ last' = Response("api_create_template_phase",
                              IF w = db THEN 500 ELSE 200, 0, pnum)
    /\ UNCHANGED <<conn, now>>

\* PUT /api/template/phase/{phase_id} with a new phase_number
api_update_template_phase(phase_id, pnum) ==
    /\ conn.pc = "idle"
    /\ LET mine == {tp \in db.template_phases : tp.id = phase_id}
       IN IF \E tp \in mine, o \in db.template_phases :
                 o.id # tp.id /\ o.template_id = tp.template_id
                              /\ o.phase_number = pnum
          THEN \* UNIQUE(template_id, phase_number): IntegrityError
               /\ db' = get_db_close(db, db)
               /\ last' = Response("api_update_template_phase", 500, phase_id, pnum)
          ELSE /\ db' = db_commit(db, [db EXCEPT !.template_phases =
                         {IF tp.id = phase_id
                          THEN [tp EXCEPT !.phase_number = pnum,
                                          !.phase_name = PhaseNameOf(pnum),
                                          !.duration_days = 14]
                          ELSE tp : tp \in @}])
               /\ last' = Response("api_update_template_phase", 200, phase_id, pnum)
    /\ UNCHANGED <<conn, now>>

\* ON DELETE CASCADE from template_tasks
DeleteTemplateTasks(d, gone) ==
    [d EXCEPT !.template_tasks = {tt \in @ : tt.id \notin gone},
              !.template_task_actions = {a \in @ : a.template_task_id \notin gone}]

\* DELETE FROM template_phases WHERE id=?, with ON DELETE CASCADE to the
\* phase's tasks; template_phase_dependencies has no key on template_phases
DeleteTemplatePhases(d, gone) ==
    LET tasksGone == {tt.id : tt \in {tt \in d.template_tasks :
                                         tt.template_phase_id \in gone}}
    IN [DeleteTemplateTasks(d, tasksGone) EXCEPT
            !.template_phases = {tp \in @ : tp.id \notin gone}]

\* DELETE /api/template/phase/{phase_id}
api_delete_template_phase(phase_id) ==
    /\ conn.pc = "idle"
    /\ db' = db_commit(db, DeleteTemplatePhases(db, {phase_id}))
    /\ last' = Response("api_delete_template_phase", 200, phase_id, "ok")
    /\ UNCHANGED <<conn, now>>

\* POST /api/template/phase/{phase_id}/task
create_template_task(phase_id) ==
    /\ conn.pc = "idle"
    /\ db.seq["template_tasks"] < MaxAuthorRows
    /\ LET w == api_create_template_task(db, phase_id, "extra", "Platform Team")
       IN /\ db' = db_commit(db, w)
          /\ last' = Response("api_create_template_task",
                              IF w = db THEN 500 ELSE 200, w.seq["template_tasks"],
                              phase_id)
    /\ UNCHANGED <<conn, now>>

\* DELETE /api/template/task/{task_id}
api_delete_template_task(task_id) ==
    /\ conn.pc = "idle"
    /\ db' = db_commit(db, DeleteTemplateTasks(db, {task_id}))
    /\ last' = Response("api_delete_template_task", 200, task_id, "ok")
    /\ UNCHANGED <<conn, now>>

\* POST /api/template/{template_id}/dependency
add_template_dep(template_id, pnum, dnum) ==
    /\ conn.pc = "idle"
    /\ db.seq["template_phase_dependencies"] < MaxAuthorRows
    /\ db' = db_commit(db, api_add_template_dep(db, template_id, pnum, dnum))
    /\ last' = Response("api_add_template_dep",
                        IF template_id \in Ids(db.templates) THEN 200 ELSE 500,
                        template_id, <<pnum, dnum>>)
    /\ UNCHANGED <<conn, now>>

\* DELETE /api/template/dependency/{dep_id}
api_remove_template_dep(dep_id) ==
    /\ conn.pc = "idle"
    /\ db' = db_commit(db, [db EXCEPT !.template_phase_dependencies =
                                          {e \in @ : e.id # dep_id}])
    /\ last' = Response("api_remove_template_dep", 200, dep_id, "ok")
    /\ UNCHANGED <<conn, now>>

\* ON DELETE CASCADE from projects: the project's phases with what they own,
\* and the project's dependency edges
DeleteProjects(d, gone) ==
    LET phasesGone == {ph.id : ph \in {ph \in d.phases : ph.project_id \in gone}}
    IN [DeletePhases(d, phasesGone) EXCEPT
            !.projects = {p \in @ : p.id \notin gone},
            !.phase_dependencies = {e \in @ : e.project_id \notin gone}]

\* DELETE /api/project/{project_id}
api_delete_project(project_id) ==
    /\ conn.pc = "idle"
    /\ db' = db_commit(db, DeleteProjects(db, {project_id}))
    /\ last' = Response("api_delete_project", 200, project_id, "ok")
    /\ UNCHANGED <<conn, now>>

\* ------------------------------------------------- a template is edited
\* phase numbers a client names: one the template has and one it lacks
AuthorPhaseNums == {1, 2}

TemplatePhaseIdInputs ==
    Ids(db.template_phases) \cup {NextId(db, "template_phases")}

NextAuthor ==
    \/ \E pnum \in AuthorPhaseNums : create_template_phase(1, pnum)
    \/ \E phase_id \in TemplatePhaseIdInputs, pnum \in AuthorPhaseNums :
           api_update_template_phase(phase_id, pnum)
    \/ \E phase_id \in TemplatePhaseIdInputs : api_delete_template_phase(phase_id)
    \/ \E phase_id \in TemplatePhaseIdInputs : create_template_task(phase_id)
    \/ \E task_id \in Ids(db.template_tasks) : api_delete_template_task(task_id)
    \/ \E pnum \in AuthorPhaseNums, dnum \in AuthorPhaseNums :
           add_template_dep(1, pnum, dnum)
    \/ \E dep_id \in Ids(db.template_phase_dependencies) :
           api_remove_template_dep(dep_id)
    \/ \E template_id \in 1..2 : api_delete_template(template_id)

SpecAuthor == InitPhases /\ [][NextAuthor]_vars

\* ----------------------------------------------------------------- C22
\* the phase numbers of a template
PhaseNumbersOf(d, template_id) ==
    {tp.phase_number : tp \in TemplatePhasesOf(d, template_id)}

\* C22: every template dependency edge names, on both sides, phase numbers of
\* phases of its template, and every project dependency edge names, on both
\* sides, ids of existing phases.
C22_EdgesNameExistingPhases ==
    /\ \A e \in db.template_phase_dependencies :
          {e.phase_number, e.depends_on_phase_number}
              \subseteq PhaseNumbersOf(db, e.template_id)
    /\ \A e \in db.phase_dependencies :
          {e.phase_id, e.depends_on_phase_id} \subseteq Ids(db.phases)

\* ------------------------------------------ ordering keys under authoring
\* payloads that repeat a phase number, and a task order within a phase
DupPhasePayload ==
    Payload("Twice",
            <<[phase_number |-> 1, phase_name |-> PhaseNameOf(1), duration_days |-> 7,
               tasks |-> <<>>],
              [phase_number |-> 1, phase_name |-> PhaseNameOf(2), duration_days |-> 7,
               tasks |-> <<>>]>>,
            <<>>)

DupOrderPayload ==
    Payload("Tied",
            <<[phase_number |-> 1, phase_name |-> PhaseNameOf(1), duration_days |-> 7,
               tasks |-> <<[task_order |-> 1, task_name |-> <<1, 1>>,
                            ownership |-> "Platform Team"],
                           [task_order |-> 1, task_name |-> <<1, 2>>,
                            ownership |-> "App Team"]>>]>>,
            <<>>)

OrderPayloads == {DupPhasePayload, DupOrderPayload}

NextOrder ==
    \/ \E pnum \in AuthorPhaseNums : create_template_phase(1, pnum)
    \/ \E phase_id \in Ids(db.template_phases) :
           api_update_template_phase(phase_id, 1)
    \/ \E phase_id \in TemplatePhaseIdInputs : create_template_task(phase_id)
    \/ \E task_id \in Ids(db.template_tasks) : api_delete_template_task(task_id)
    \/ \E body \in OrderPayloads :
           /\ db.seq["templates"] < MaxTemplates
           /\ api_import_template(body)
    \/ /\ db.seq["templates"] < MaxTemplates
       /\ api_clone_template(1, "")
    \/ /\ db.seq["projects"] = 0
       /\ api_create_project("alpha", 1, 20240215)
    \/ CreateProjectSteps
    \/ \E phase_id \in PhaseIdInputs : create_task(phase_id, "extra")

SpecOrder == InitPhases /\ [][NextOrder]_vars

\* ----------------------------------------------------------------- C23
C23_UniqueKeys ==
    /\ \A a, b \in db.template_phases :
          (a.template_id = b.template_id /\ a.phase_number = b.phase_number)
              => a = b
    /\ \A a, b \in db.template_tasks :
          (a.template_phase_id = b.template_phase_id /\ a.task_order = b.task_order)
              => a = b
    /\ \A a, b \in db.tasks :
          (a.phase_id = b.phase_id /\ a.task_order = b.task_order) => a = b

\* the requests that ask for a key that is taken, or for one key twice
C23_DuplicateRefused ==
    /\ \A pnum \in AuthorPhaseNums :
          (pnum \in PhaseNumbersOf(db, 1) /\ create_template_phase(1, pnum))
              => (last'.code # 200 /\ db' = db)
    /\ \A phase_id \in Ids(db.template_phases) :
          ((\E o \in db.template_phases :
                /\ o.id # phase_id
                /\ o.template_id = RowById(db.template_phases, phase_id).template_id
                /\ o.phase_number = 1)
            /\ api_update_template_phase(phase_id, 1))
              => (last'.code # 200 /\ db' = db)
    /\ \A body \in OrderPayloads :
          api_import_template(body) => (last'.code # 200 /\ db' = db)

LateBody == DeadlineBody(20240105, 20240110, 20240115, "late")

NextCascade ==
    \/ /\ db.seq["projects"] = 0
       /\ api_create_project("alpha", 1, 20240215)
    \/ CreateProjectSteps
    \/ \E phase_id \in Ids(db.phases) :
           api_set_phase_deadline(phase_id, "Platform Team", LateBody)
    \/ \E task_id \in Ids(db.tasks) : api_set_task_deadline(task_id, LateBody)
    \/ \E task_id \in Ids(db.tasks) : delete_task(task_id)
    \/ \E phase_id \in Ids(db.phases) : delete_phase(phase_id)
    \/ \E project_id \in Ids(db.projects) : api_delete_project(project_id)
    \/ \E phase_id \in Ids(db.template_phases) : api_delete_template_phase(phase_id)
    \/ \E template_id \in Ids(db.templates) : api_delete_template(template_id)

SpecCascade == InitPhases /\ [][NextCascade]_vars

\* ----------------------------------------------------------------- C24
\* nothing in d belongs to one of the phases
NothingOfPhases(d, phase_ids) ==
    LET task_ids == {t.id : t \in {t \in db.tasks : t.phase_id \in phase_ids}}
    IN /\ \A t \in d.tasks : t.phase_id \notin phase_ids
       /\ \A a \in d.task_actions : a.task_id \notin task_ids
       /\ \A td \in d.task_deadlines : td.task_id \notin task_ids
       /\ \A pd \in d.phase_deadlines : pd.phase_id \notin phase_ids
       /\ \A e \in d.phase_dependencies :
             e.phase_id \notin phase_ids /\ e.depends_on_phase_id \notin phase_ids

C24_ProjectGone ==
    \A project_id \in Ids(db.projects) :
        api_delete_project(project_id) =>
            /\ \A ph \in db'.phases : ph.project_id # project_id
            /\ \A e \in db'.phase_dependencies : e.project_id # project_id
            /\ NothingOfPhases(db', Ids(PhasesOf(db, project_id)))

C24_PhaseGone ==
    \A phase_id \in Ids(db.phases) :
        delete_phase(phase_id) =>
            /\ phase_id \notin Ids(db'.phases)
            /\ NothingOfPhases(db', {phase_id})

C24_TemplateGone ==
    \A template_id \in Ids(db.templates) :
        (api_delete_template(template_id) /\ last'.code = 200) =>
            LET phase_ids == Ids(TemplatePhasesOf(db, template_id))
                task_ids == {tt.id : tt \in {tt \in db.template_tasks :
                                                tt.template_phase_id \in phase_ids}}
            IN /\ \A tp \in db'.template_phases : tp.template_id # template_id
               /\ \A tt \in db'.template_tasks : tt.template_phase_id \notin phase_ids
               /\ \A a \in db'.template_task_actions : a.template_task_id \notin task_ids
               /\ \A e \in db'.template_phase_dependencies :
                     e.template_id # template_id

C24_TemplatePhaseGone ==
    \A tp \in db.template_phases :
        api_delete_template_phase(tp.id) =>
            \A e \in db'.template_phase_dependencies :
                e.template_id = tp.template_id =>
                    tp.phase_number \notin {e.phase_number, e.depends_on_phase_number}

\* C24: deleting a project leaves no phase, task, action, edge or deadline of
\* it; deleting a project phase leaves none of its tasks, actions, deadlines
\* and no edge naming it; deleting a template leaves none of its phases,
\* tasks, actions or edges; deleting a template phase leaves no edge of the
\* template that names the phase's number.
C24_NoOrphans ==
    [][C24_ProjectGone /\ C24_PhaseGone /\ C24_TemplateGone
         /\ C24_TemplatePhaseGone]_vars

\* ------------------------------------------- two status requests in flight
\* Each request runs update_task_status on a connection of its own.  The
\* handler's statements are steps; SQLite lets one connection write at a
\* time: the first UPDATE takes the write lock, commit releases it, and a
\* connection that finds the lock taken waits or gives up with "database is
\* locked".  conn holds the lock, the two requests and the commit order.
Requests == {1, 2}

NotArrived == [stage |-> "none"]

\* variant: no write lock
LockIgnored(c, r) == TRUE

\* the connection of request r may write
LockFree(c, r) == c.lock \in {0, r}

\* UPDATE tasks SET status=?, ... WHERE id=?
UpdateTaskStmt(d, task_id, new_status, now_str) ==
    [d EXCEPT !.tasks = {IF t.id = task_id THEN TaskAfter(t, new_status, now_str)
                                           ELSE t : t \in @}]

\* SELECT phase_id, the three COUNT(*) and UPDATE phases, on the connection
RollupStmts(d, task_id, now_str) ==
    IF task_id \notin Ids(d.tasks) THEN d
    ELSE LET pid == RowById(d.tasks, task_id).phase_id
         IN [d EXCEPT !.phases =
                {IF ph.id = pid
                 THEN PhaseAfter(ph, Cardinality(TasksOf(d, pid)),
                                 CountStatus(d, pid, "completed"),
                                 CountStatus(d, pid, "in_progress"), now_str)
                 ELSE ph : ph \in @}]

\* a request arrives; the handler awaits its body
conc_receive(r, task_id, new_status) ==
    /\ conn.pc = "serving"
    /\ conn.req[r].stage = "none"
    /\ conn' = [conn EXCEPT !.req[r] = [stage |-> "body", task_id |-> task_id,
                                        new_status |-> new_status]]
    /\ UNCHANGED <<db, now, last>>

\* the body is there, the status is valid: get_db() and now_str
conc_open(r) ==
    /\ conn.pc = "serving"
    /\ conn.req[r].stage = "body"
    /\ conn' = [conn EXCEPT !.req[r] = [stage |-> "update", task_id |-> @.task_id,
                                        new_status |-> @.new_status,
                                        now_str |-> now]]
    /\ UNCHANGED <<db, now, last>>

\* the UPDATE tasks statement: it begins the transaction and takes the lock
conc_update_task(r) ==
    /\ conn.pc = "serving"
    /\ conn.req[r].stage = "update"
    /\ LockFree(conn, r)
    /\ LET q == conn.req[r]
       IN conn' = [conn EXCEPT !.lock = r,
                      !.req[r] = [stage |-> "rollup", task_id |-> q.task_id,
                                  new_status |-> q.new_status, now_str |-> q.now_str,
                                  work |-> UpdateTaskStmt(db, q.task_id, q.new_status,
                                                          q.now_str)]]
    /\ UNCHANGED <<db, now, last>>

\* the lock stayed taken for the whole busy timeout: OperationalError
conc_locked(r) ==
    /\ conn.pc = "serving"
    /\ conn.req[r].stage = "update"
    /\ ~LockFree(conn, r)
    /\ conn' = [conn EXCEPT !.req[r] = [stage |-> "done"]]
    /\ db' = get_db_close(db, db)
    /\ last' = Response("update_task_status", 500, r, "database is locked")
    /\ UNCHANGED now

\* the SELECTs and the UPDATE phases statement
conc_rollup(r) ==
    /\ conn.pc = "serving"
    /\ conn.req[r].stage = "rollup"
    /\ conn' = [conn EXCEPT !.req[r].stage = "commit",
                            !.req[r].work = RollupStmts(@, conn.req[r].task_id,
                                                        conn.req[r].now_str)]
    /\ UNCHANGED <<db, now, last>>

\* db.commit() and the response
conc_commit(r) ==
    /\ conn.pc = "serving"
    /\ conn.req[r].stage = "commit"
    /\ db' = db_commit(db, conn.req[r].work)
    /\ conn' = [conn EXCEPT !.lock = 0,
                            !.order = Append(@, [task_id |-> conn.req[r].task_id,
                                                 new_status |-> conn.req[r].new_status,
                                                 now_str |-> conn.req[r].now_str]),
                            !.req[r] = [stage |-> "done"]]
    /\ last' = Response("update_task_status", 200, r, "ok")
    /\ UNCHANGED now

\* One project, one phase with two tasks of which done are completed.
InitConc ==
    /\ \E done \in 0..2 : db = RagDB(20240101, 20240121, 2, done)
    /\ conn = [pc |-> "serving", lock |-> 0, base |-> db, order |-> <<>>,
               req |-> [r \in Requests |-> NotArrived]]
    /\ now = 1
    /\ last = NoRequest

NextConc ==
    \/ \E r \in Requests, task_id \in 1..2, new_status \in Statuses :
           conc_receive(r, task_id, new_status)
    \/ \E r \in Requests : conc_open(r)
    \/ \E r \in Requests : conc_update_task(r)
    \/ \E r \in Requests : conc_locked(r)
    \/ \E r \in Requests : conc_rollup(r)
    \/ \E r \in Requests : conc_commit(r)
    \/ Tick

SpecConc == InitConc /\ [][NextConc]_vars

\* ----------------------------------------------------------------- C25
\* the requests of a commit order run one after the other
RECURSIVE RunInOrder(_, _)
RunInOrder(d, order) ==
    IF order = <<>> THEN d
    ELSE RunInOrder(SetTaskStatus(d, Head(order).task_id, Head(order).new_status,
                                  Head(order).now_str),
                    Tail(order))

\* C25: whatever the interleaving of the statements of two setTaskStatus
\* requests on the same task or on the two tasks of a phase, the committed
\* database is the one that running the committed requests one after the
\* other, in commit order, gives; once the requests are over the phase's
\* status is the rollup of the tasks' final statuses.
C25_Serialized ==
    /\ db = RunInOrder(conn.base, conn.order)
    /\ (\A r \in Requests : conn.req[r].stage = "done")
           => \A ph \in db.phases : ph.status = RollupStatus(db, ph.id)

\* both requests committed, on the two tasks of the phase, the one that
\* committed second having read the clock no later than the other: the phase
\* is completed
C25_Witness ==
    /\ Len(conn.order) = 2
    /\ conn.order[1].task_id # conn.order[2].task_id
    /\ conn.order[2].now_str <= conn.order[1].now_str
    /\ \A r \in Requests : conn.req[r].stage = "done"
    /\ \A ph \in db.phases : ph.status = "completed"
    /\ conn.base.phases # db.phases

\* --------------------------------- deleting a template, creating a project
\* Two templates; requests delete either and create projects from either.
InitRace ==
    /\ db = TwoTemplates
    /\ conn = Idle
    /\ now = 1
    /\ last = NoRequest

NextRace ==
    \/ \E template_id \in Ids(TwoTemplates.templates) :
           api_delete_template(template_id)
    \/ \E name \in ProjectNames, template_id \in Ids(TwoTemplates.templates) :
           /\ db.seq["projects"] < 2
           /\ api_create_project(name, template_id, 20240215)
    \/ CreateProjectSteps
    \/ \E project_id \in Ids(db.projects) : api_delete_project(project_id)
    \/ Tick

SpecRace == InitRace /\ [][NextRace]_vars

\* ----------------------------------------------------------------- C26
\* C26: whatever the order of a deleteTemplate(T) and an instantiateProject(T)
\* request, no committed project names a template that has been deleted.
C26_NoProjectOfDeletedTemplate ==
    \A p \in db.projects : p.template_id \in Ids(db.templates)

\* ------------------------------------------------ dependencies in a circle
\* The template of InitPhases (edge 4 -> 1) is given more edges between its
\* phases, a project is created from it and its tasks are worked on.
NextCycle ==
    \/ \E pnum \in {1, 4}, dnum \in {1, 4} : add_template_dep(1, pnum, dnum)
    \/ /\ db.seq["projects"] = 0
       /\ api_create_project("alpha", 1, 20240215)
    \/ CreateProjectSteps
    \/ \E task_id \in Ids(db.tasks), new_status \in Statuses :
           update_task_status(task_id, new_status)
    \/ \E depends_on \in PrereqInputs : create_phase(1, 6, depends_on)
    \/ Tick

SpecCycle == InitPhases /\ [][NextCycle]_vars

\* ----------------------------------------------------------------- C27
\* phase b is reached from phase a along at most n edges (a depends on ...
\* depends on b) through phases that are not completed
RECURSIVE DependsWithin(_, _, _, _)
DependsWithin(d, a, b, n) ==
    /\ n > 0
    /\ \E e \in d.phase_dependencies :
          /\ e.phase_id = a
          /\ e.depends_on_phase_id \in Ids(d.phases)
          /\ RowById(d.phases, e.depends_on_phase_id).status # "completed"
          /\ (e.depends_on_phase_id = b
               \/ DependsWithin(d, e.depends_on_phase_id, b, n - 1))

\* the phase is not completed and lies on a cycle of such phases
OnOpenCycle(d, ph) ==
    /\ ph.status # "completed"
    /\ DependsWithin(d, ph.id, ph.id, Cardinality(d.phases))

\* C27: a phase on a dependency cycle of phases that are not completed is
\* reported locked, and is still reported locked after any step.
C27_CycleLocksForGood ==
    [][\A ph \in db.phases :
          OnOpenCycle(db, ph) =>
              /\ is_locked(db, ph.project_id, ph)
              /\ \A ph2 \in db'.phases :
                    ph2.id = ph.id => is_locked(db', ph2.project_id, ph2)]_vars

\* ----------------------------------------------------------------- C28
\* C28: a phase that has a prerequisite whose status is not completed is
\* pending: no locked phase is in_progress or completed.
C28_LockedPhasePending ==
    \A ph \in db.phases :
        is_locked(db, ph.project_id, ph) => ph.status = "pending"

\* ----------------------------------------------------------------- C29
\* the row but for its status and timestamps
BesidesStatus(r) == [r EXCEPT !.status = "", !.started_at = NULL, !.completed_at = NULL]

C29_Frame ==
    \A task_id \in Ids(db.tasks), new_status \in Statuses :
        update_task_status(task_id, new_status) =>
            LET pid == TaskIn(db, task_id).phase_id
            IN /\ last'.code = 200
               /\ {t \in db'.tasks : t.id # task_id} = {t \in db.tasks : t.id # task_id}
               /\ BesidesStatus(TaskIn(db', task_id)) = BesidesStatus(TaskIn(db, task_id))
               /\ {ph \in db'.phases : ph.id # pid} = {ph \in db.phases : ph.id # pid}
               /\ BesidesStatus(RowById(db'.phases, pid))
                      = BesidesStatus(RowById(db.phases, pid))
               /\ \A table \in Tables \ {"tasks", "phases"} : db'[table] = db[table]
               /\ db'.seq = db.seq

\* C29: a successful setTaskStatus(t, s) changes nothing but the status and
\* timestamps of task t and of t's phase: the other tasks, those of the same
\* phase included, the other phases, the edges, deadlines, projects and
\* templates are as before.
C29_SetTaskStatusFrame == [][C29_Frame]_vars

\* a task has just been set on a phase of two tasks: one task of the phase
\* is in_progress, its neighbour is still untouched, and so is another phase
C29_Witness ==
    /\ last.op = "update_task_status" /\ last.code = 200
    /\ \E ph, other \in db.phases :
          /\ ph.id # other.id /\ Untouched(other)
          /\ Cardinality(TasksOf(db, ph.id)) = 2
          /\ ph.status = "in_progress"
          /\ CountStatus(db, ph.id, "in_progress") = 1
          /\ Cardinality({t \in TasksOf(db, ph.id) : Untouched(t)}) = 1

\* ------------------------------------------ the schedule and its deadline
\* durations a template phase may carry, a phase of no length among them
ScheduleDurations == {0, 7, 40}

InitSchedule ==
    /\ \E pnums \in SUBSET PhaseNums :
       \E dur \in [pnums -> ScheduleDurations \cup {NULL}] :
           db = AuthoredDB(pnums, dur, [n \in pnums |-> TaskCount(n, 0)],
                           FALSE, {})
    /\ conn = Idle
    /\ now = 1
    /\ last = NoRequest

NextSchedule ==
    \/ \E name \in ProjectNames, template_id \in TemplateIds, start_str \in StartDates :
           api_create_project(name, template_id, start_str)
    \/ CreateProjectSteps

SpecSchedule == InitSchedule /\ [][NextSchedule]_vars

\* ----------------------------------------------------------------- C30
\* C30: a committed project of a template with at least one phase and no
\* negative (or missing) duration has target_completion = start_date + the
\* sum of all the template's phase durations, and each of its phases lies
\* inside the project: start_date <= target_start <= target_end <=
\* target_completion.
C30_ScheduleFitsDeadline ==
    \A p \in db.projects :
        LET tps == TemplatePhasesOf(db, p.template_id)
        IN (tps # {} /\ \A tp \in tps : tp.duration_days >= 0) =>
              /\ p.target_completion
                     = strftime(timedelta(strptime(p.start_date), SumDurations(tps)))
              /\ Cardinality(PhasesOf(db, p.id)) = Cardinality(tps)
              /\ \A ph \in PhasesOf(db, p.id) :
                     /\ strptime(p.start_date) <= strptime(ph.target_start)
                     /\ strptime(ph.target_start) <= strptime(ph.target_end)
                     /\ strptime(ph.target_end) <= strptime(p.target_completion)

\* a committed project of four phases: one phase has no length, one ends
\* on the project's last day and one ends before it, in a later month than
\* the project started
C30_Witness ==
    \E p \in db.projects :
        /\ Cardinality(PhasesOf(db, p.id)) = 4
        /\ \E a, b, c \in PhasesOf(db, p.id) :
              /\ a.target_start = a.target_end
              /\ b.target_end = p.target_completion
              /\ b.target_start > p.start_date
              /\ c.target_end < p.target_completion
              /\ c.target_end \div 100 > p.start_date \div 100

====
